---- MODULE Spec2Model ----
(***************************************************************************)
(* Model of the video splitter's batch orchestration: core.split_video,    *)
(* the encoder subprocess it supervises, the cancel flag another thread    *)
(* sets, and the input validation of the two front ends (gui.py, main.py). *)
(*                                                                         *)
(* Times are fixed-point: every time value is an integer number of ticks,  *)
(* TicksPerSecond ticks to the second (the source computes in floats).     *)
(***************************************************************************)
EXTENDS Integers, Sequences, FiniteSets, TLC

\* ------------------------------------------------------------------ bounds

\* resolution of the fixed-point time values
TicksPerSecond == 2
\* probed durations range over -MaxNegative .. MaxDuration ticks
MaxDuration == 6
\* segment lengths range over -MaxNegative .. MaxSegment ticks
MaxSegment == 5
MaxNegative == 2
\* only requests planning at most MaxSegments segments are explored
MaxSegments == 3
\* the GUI's files are 1 .. MaxGuiSegments segments long
MaxGuiSegments == 2
\* the GUI starts at most MaxThreads worker threads
MaxThreads == 2
\* what the two pipes of an encoder hold before a write to them blocks
PipeCapacity == 1
\* an encoder writes 0 .. MaxOutput to its stdout and stderr in all
MaxOutput == 2

VARIABLES
    caller,          \* who makes the request: "gui", "cli" or "direct"
    pc,              \* position of the request / of split_video
    duration,        \* get_duration(info) of the input file, in ticks
    segment_seconds, \* segment_duration_minutes * 60, in ticks
    num_segments,    \* split_video's num_segments (0 until planned)
    i,               \* split_video's loop variable
    events,          \* SplitProgress values passed to notify, in order
    clip_entries,    \* split_video's clip_entries
    cancel_event,    \* the threading.Event: TRUE when set
    proc,            \* the encoder subprocess of the current segment
    spawned,         \* every encoder command given to Popen, in order
    output_dir,      \* TRUE once os.makedirs(output_dir) ran
    readme_calls,    \* number of generate_readme calls
    result,          \* what split_video gave back to its caller
    cancel_at,       \* where split_video was when the flag was set
    returncodes,     \* the exit statuses split_video read, in segment order
    convert_to_h264, \* split_video's convert_to_h264 argument
    progress_callback, \* split_video's progress_callback argument
    progress_queue,  \* the GUI's progress_queue: the values put, unread
    gui,             \* the VideoSplitterGUI object and its main thread
    threads,         \* the split worker threads the GUI started, in order
    tools,           \* the two executables as the front end finds them
    core_run         \* the ended run of core.split_video that the run of
                     \* main.split_video is compared with

vars == <<caller, pc, duration, segment_seconds, num_segments, i, events,
          clip_entries, cancel_event, proc, spawned, output_dir,
          readme_calls, result, cancel_at, returncodes, convert_to_h264,
          progress_callback, progress_queue, gui, threads, tools,
          core_run>>

\* ------------------------------------------------------- pure functions

\* Python's // for a non-zero divisor of either sign
FloorDiv(a, b) == IF b > 0 THEN a \div b ELSE (-a) \div (-b)

\* math.ceil(a / b), b # 0
Ceil(a, b) == -FloorDiv(-a, b)

Min(a, b) == IF a <= b THEN a ELSE b

\* the label "" of the batch-level events; a text is the sequence of its
\* characters
NoLabel == <<>>

\* the decimal digits
DigitChar == <<"0", "1", "2", "3", "4", "5", "6", "7", "8", "9">>

\* str(n) for n >= 0
RECURSIVE Digits(_)
Digits(n) ==
    IF n < 10 THEN <<DigitChar[n + 1]>>
    ELSE Digits(n \div 10) \o <<DigitChar[(n % 10) + 1]>>

\* f"{n:02d}": at least two characters, zeros in front, the sign counted
fmt02d(n) ==
    IF n < 0 THEN <<"-">> \o Digits(-n)
    ELSE IF n < 10 THEN <<"0">> \o Digits(n)
    ELSE Digits(n)

\* seconds_to_hm with the minutes rounded to the nearest minute
seconds_to_hm_rounded(t) ==
    fmt02d(t \div (3600 * TicksPerSecond)) \o <<":">>
    \o fmt02d(((t % (3600 * TicksPerSecond)) + 30 * TicksPerSecond)
                \div (60 * TicksPerSecond))

\* seconds_to_hm: "HH:MM", the seconds truncated
seconds_to_hm(t) ==
    fmt02d(t \div (3600 * TicksPerSecond)) \o <<":">>
    \o fmt02d((t % (3600 * TicksPerSecond)) \div (60 * TicksPerSecond))

\* sanitize_filename: every ':' becomes '-'
sanitize_filename(name) ==
    [n \in 1 .. Len(name) |-> IF name[n] = ":" THEN "-" ELSE name[n]]

\* the plan of segment k (0-based): start_sec, end_sec, seg_duration
start_sec(k) == k * segment_seconds
\* end_sec without the clamp to the total duration
end_sec_unclamped(k) == start_sec(k) + segment_seconds
end_sec(k) == Min(start_sec(k) + segment_seconds, duration)
seg_duration(k) == end_sec(k) - start_sec(k)

\* the filename field of an event or clip entry
NoFile == [kind |-> "none", start |-> NoLabel, end |-> NoLabel]
ReadmeFile == [kind |-> "README.txt", start |-> NoLabel, end |-> NoLabel]
out_filename(k) ==
    [kind  |-> "segment.mp4",
     start |-> sanitize_filename(seconds_to_hm(start_sec(k))),
     end   |-> sanitize_filename(seconds_to_hm(end_sec(k)))]

\* a SplitProgress value
SplitProgress(idx, total, sl, el, fname, st) ==
    [segment_index |-> idx, total_segments |-> total, start_label |-> sl,
     end_label |-> el, filename |-> fname, status |-> st]

\* the per-segment SplitProgress of segment k with status st
SegmentProgress(k, st) ==
    SplitProgress(k + 1, num_segments, seconds_to_hm(start_sec(k)),
                  seconds_to_hm(end_sec(k)), out_filename(k), st)

\* the batch-level SplitProgress (no labels)
BatchProgress(idx, fname, st) ==
    SplitProgress(idx, num_segments, NoLabel, NoLabel, fname, st)

\* notify with a progress_queue of maximum size 1: the put waits while the
\* queue holds a value
notify_bounded(progress) ==
    /\ progress_callback = "progress_queue.put" => Len(progress_queue) < 1
    /\ events' = Append(events, progress)
    /\ progress_queue' = IF progress_callback = "progress_queue.put"
                           THEN Append(progress_queue, progress)
                           ELSE progress_queue

\* split_video.notify: hand the value to the callback if there is one; the
\* GUI's callback puts it on progress_queue, a queue.Queue() without a
\* maximum size, so the put never waits. `events` records every value
\* notify was called with
notify(progress) ==
    /\ events' = Append(events, progress)
    /\ progress_queue' = IF progress_callback = "progress_queue.put"
                           THEN Append(progress_queue, progress)
                           ELSE progress_queue

\* seconds_to_hhmmss: "HH:MM:SS", the fraction of a second truncated
seconds_to_hhmmss(t) ==
    fmt02d(t \div (3600 * TicksPerSecond)) \o <<":">>
    \o fmt02d((t % (3600 * TicksPerSecond)) \div (60 * TicksPerSecond))
    \o <<":">>
    \o fmt02d((t % (60 * TicksPerSecond)) \div TicksPerSecond)

\* one literal argument of a command line
Arg(s) == [arg |-> s]

\* the input file's path, the same in every command
input_path == Arg("input_path")

\* build_ffmpeg_cmd with the stream copy added whatever the flag is
build_ffmpeg_cmd_copy(out_path, start, seg_len, convert) ==
    <<Arg("ffmpeg"), Arg("-y"),
      Arg("-ss"), [hhmmss |-> seconds_to_hhmmss(start)],
      Arg("-i"), input_path,
      Arg("-t"), [str |-> seg_len]>>
    \o (IF convert
          THEN <<Arg("-c:v"), Arg("h264_nvenc"), Arg("-preset"), Arg("p5"),
                 Arg("-cq"), Arg("23"),
                 Arg("-c:a"), Arg("aac"), Arg("-b:a"), Arg("192k")>>
          ELSE <<>>)
    \o <<Arg("-c:v"), Arg("copy"), Arg("-c:a"), Arg("copy")>>
    \o <<[path |-> out_path]>>

\* build_ffmpeg_cmd with the seek on the output side: -ss after the input
build_ffmpeg_cmd_outseek(out_path, start, seg_len, convert) ==
    <<Arg("ffmpeg"), Arg("-y"),
      Arg("-i"), input_path,
      Arg("-ss"), [hhmmss |-> seconds_to_hhmmss(start)],
      Arg("-t"), [str |-> seg_len]>>
    \o (IF convert
          THEN <<Arg("-c:v"), Arg("h264_nvenc"), Arg("-preset"), Arg("p5"),
                 Arg("-cq"), Arg("23"),
                 Arg("-c:a"), Arg("aac"), Arg("-b:a"), Arg("192k")>>
          ELSE <<Arg("-c:v"), Arg("copy"), Arg("-c:a"), Arg("copy")>>)
    \o <<[path |-> out_path]>>

\* build_ffmpeg_cmd: the argument list of the encoder for one segment; the
\* seek is formatted by seconds_to_hhmmss, the length by str()
build_ffmpeg_cmd(out_path, start, seg_len, convert) ==
    <<Arg("ffmpeg"), Arg("-y"),
      Arg("-ss"), [hhmmss |-> seconds_to_hhmmss(start)],
      Arg("-i"), input_path,
      Arg("-t"), [str |-> seg_len]>>
    \o (IF convert
          THEN <<Arg("-c:v"), Arg("h264_nvenc"), Arg("-preset"), Arg("p5"),
                 Arg("-cq"), Arg("23"),
                 Arg("-c:a"), Arg("aac"), Arg("-b:a"), Arg("192k")>>
          ELSE <<Arg("-c:v"), Arg("copy"), Arg("-c:a"), Arg("copy")>>)
    \o <<[path |-> out_path]>>

\* the clip entry of segment k; `segment` (1-based) is not a key of the
\* source's dict, it records which iteration appended the entry
ClipEntry(k) ==
    [segment      |-> k + 1,
     filename     |-> out_filename(k),
     start_label  |-> seconds_to_hm(start_sec(k)),
     end_label    |-> seconds_to_hm(end_sec(k)),
     duration_sec |-> seg_duration(k)]

\* the subprocess handle before any Popen; `output` is how much the
\* process writes to its stdout and stderr before it exits
NoProc == [state |-> "none", returncode |-> 0, terminate |-> FALSE,
           kill |-> FALSE, output |-> 0]

\* subprocess.Popen(cmd, stdout=PIPE, stderr=PIPE): a running process
\* that will write `out` to the two pipes
Popen(out) == [state |-> "running", returncode |-> 0, terminate |-> FALSE,
               kill |-> FALSE, output |-> out]

\* split_video's outcome: not finished, a returned list, or an exception
\* (`detail` is the length of the detail a VideoInfoError carries)
NoResult ==
    [returned |-> FALSE, value |-> <<>>, raised |-> "", detail |-> 0]
Returned(list) ==
    [returned |-> TRUE, value |-> list, raised |-> "", detail |-> 0]
Raised(exc) ==
    [returned |-> FALSE, value |-> <<>>, raised |-> exc, detail |-> 0]

\* line 176: the detail is the last DetailLimit characters of stderr
DetailLimit == 200

\* the lengths of the text ffprobe writes to stderr
StderrLens == {0, DetailLimit, DetailLimit + 1}

\* what subprocess.run(["ffprobe", ...]) can do: the executable is not
\* found, or it runs and gives an exit status, a stdout that is JSON or is
\* not, and a stderr
ProbeRuns ==
    {[tool |-> "missing", returncode |-> 0, stdout |-> "", stderr |-> 0]}
    \cup [tool : {"found"}, returncode : {0, 1},
          stdout : {"json", "not json"}, stderr : StderrLens]

\* get_video_info: subprocess.run raises FileNotFoundError when there is no
\* ffprobe; a non-zero exit status raises VideoInfoError with the last
\* DetailLimit characters of stderr; json.loads raises JSONDecodeError on a
\* stdout that is not JSON; otherwise the info is returned (NoResult: no
\* exception)
get_video_info(run) ==
    IF run.tool = "missing" THEN Raised("FileNotFoundError")
    ELSE IF run.returncode # 0
      THEN [Raised("VideoInfoError") EXCEPT
              !.detail = Min(run.stderr, DetailLimit)]
    ELSE IF run.stdout # "json" THEN Raised("JSONDecodeError")
    ELSE NoResult

\* cancel_at: whether the flag was set, how many segments split_video had
\* begun by then (passed the cancel check at the top of the loop), and
\* whether split_video had not yet ended
NeverSet == [set |-> FALSE, begun |-> 0, running |-> FALSE]
SetAt(b, r) == [set |-> TRUE, begun |-> b, running |-> r]

\* the positions of split_video inside a segment's iteration
InSegment == {"spawn", "poll", "check_cancel", "wait", "grace_wait",
              "exited", "append", "notify_done"}

\* the number of segments whose iteration has begun
SegmentsBegun == IF pc \in InSegment THEN i + 1 ELSE i

\* what is kept of a run of core.split_video once it has ended: how it
\* ended, the commands it spawned, its clip_entries, its calls of
\* generate_readme and the exit statuses it read; NoCoreRun: nothing kept
NoCoreRun == [ended |-> "", spawned |-> <<>>, clip_entries |-> <<>>,
              readme_calls |-> 0, returncodes |-> <<>>]

\* ------------------------------------------------------------------- Init

Callers == {"gui", "cli", "direct"}

\* the progress_callback each caller passes: the GUI worker's callback puts
\* the value on progress_queue; main.py has no callback; another caller
\* passes none or one of its own, such as cli_progress_callback
Callbacks(c) ==
    IF c = "gui" THEN {"progress_queue.put"}
    ELSE IF c = "cli" THEN {"none"}
    ELSE {"none", "cli_progress_callback"}

\* no GUI object exists
NoGui == [main |-> "none"]

\* what `tool -version` does: it runs and exits 0, the executable is not
\* found (FileNotFoundError), or it exits non-zero (CalledProcessError)
ToolStates == {"ok", "missing", "broken"}

\* both executables are there
ToolsOk == [ffmpeg |-> "ok", ffprobe |-> "ok"]

\* check_ffmpeg: the tool named by the FfmpegNotFoundError it raises (in
\* main.py: by the message before sys.exit(1)), "" if it returns;
\* ffmpeg is tried first
check_ffmpeg(t) ==
    IF t.ffmpeg # "ok" THEN "ffmpeg"
    ELSE IF t.ffprobe # "ok" THEN "ffprobe"
    ELSE ""

\* the requests explored: every pair within the bounds that plans at most
\* MaxSegments segments, and the scenarios 1500 s / 600 s, 600 s / 600 s
\* and 3700 s / 3661 s
Requests ==
    {r \in (-MaxNegative .. MaxDuration) \X (-MaxNegative .. MaxSegment) :
        r[2] # 0 => Ceil(r[1], r[2]) <= MaxSegments}
    \cup {<<1500 * TicksPerSecond, 600 * TicksPerSecond>>,
          <<600 * TicksPerSecond, 600 * TicksPerSecond>>,
          <<3700 * TicksPerSecond, 3661 * TicksPerSecond>>}

Init ==
    /\ caller \in Callers
    /\ \E r \in Requests : duration = r[1] /\ segment_seconds = r[2]
    /\ pc = IF caller = "direct" THEN "request" ELSE "startup"
    /\ tools \in (IF caller = "direct"
                   THEN {ToolsOk}
                   ELSE [ffmpeg : ToolStates, ffprobe : ToolStates])
    /\ num_segments = 0
    /\ i = 0
    /\ events = <<>>
    /\ clip_entries = <<>>
    /\ cancel_event \in (IF caller = "direct" THEN BOOLEAN ELSE {FALSE})
    /\ cancel_at = IF cancel_event THEN SetAt(0, TRUE) ELSE NeverSet
    /\ proc = NoProc
    /\ spawned = <<>>
    /\ output_dir = FALSE
    /\ readme_calls = 0
    /\ result = NoResult
    /\ returncodes = <<>>
    /\ convert_to_h264 \in BOOLEAN
    /\ progress_callback \in Callbacks(caller)
    /\ progress_queue = <<>>
    /\ gui = NoGui
    /\ threads = <<>>
    /\ core_run = NoCoreRun

\* --------------------------------------------------------- the front ends

\* the front end's start without its check of the tools
FrontEndStart_nocheck(c) ==
    /\ caller = c /\ pc = "startup"
    /\ pc' = "request"
    /\ UNCHANGED core_run
    /\ UNCHANGED <<tools, convert_to_h264, progress_callback, progress_queue,
                   gui, threads>>
    /\ UNCHANGED <<duration, segment_seconds, num_segments, i, caller,
                   events, clip_entries, cancel_event, proc, spawned,
                   output_dir, readme_calls, result, cancel_at, returncodes>>

\* the start of a front end c: check_ffmpeg runs first; if it fails the
\* front end ends with SystemExit(1), before any request can be made
FrontEndStart(c) ==
    /\ caller = c /\ pc = "startup"
    /\ IF check_ffmpeg(tools) = ""
         THEN pc' = "request" /\ UNCHANGED result
         ELSE pc' = "exit" /\ result' = Raised("SystemExit")
    /\ UNCHANGED core_run
    /\ UNCHANGED <<tools, convert_to_h264, progress_callback, progress_queue,
                   gui, threads>>
    /\ UNCHANGED <<duration, segment_seconds, num_segments, i, caller,
                   events, clip_entries, cancel_event, proc, spawned,
                   output_dir, readme_calls, cancel_at, returncodes>>

\* VideoSplitterGUI.__init__: _check_ffmpeg before _build_ui (on a failure:
\* the error dialog, root.destroy(), SystemExit(1))
GuiCheckFfmpeg == FrontEndStart("gui")

\* main.main: check_ffmpeg() before the prompts (on a failure: the message,
\* sys.exit(1))
MainCheckFfmpeg == FrontEndStart("cli")

\* _validate_inputs without the comparison against the video's duration
validate_inputs_nolimit == ~(segment_seconds <= 0)

\* _validate_inputs' checks of the segment length against the loaded
\* video summary (the file and the output directory are taken as given)
validate_inputs ==
    /\ ~(segment_seconds <= 0)
    /\ ~(segment_seconds >= duration)

\* VideoSplitterGUI._start_split: validate, clear the cancel flag, start
\* the worker thread that calls split_video
GuiStartSplit ==
    /\ caller = "gui" /\ pc = "request"
    /\ IF validate_inputs
         THEN /\ cancel_event' = FALSE
              /\ cancel_at' = NeverSet
              /\ pc' = "entry"
         ELSE /\ pc' = "rejected"
              /\ UNCHANGED <<cancel_event, cancel_at>>
    /\ UNCHANGED core_run
    /\ UNCHANGED <<tools, convert_to_h264, progress_callback, progress_queue,
                   gui, threads>>
    /\ UNCHANGED <<caller, duration, segment_seconds, num_segments, i,
                   events, clip_entries, proc, spawned, output_dir,
                   readme_calls, result, returncodes>>

\* a caller of core.split_video other than the GUI: no validation
DirectCall ==
    /\ caller = "direct" /\ pc = "request"
    /\ pc' = "entry"
    /\ UNCHANGED core_run
    /\ UNCHANGED <<tools, convert_to_h264, progress_callback, progress_queue,
                   gui, threads>>
    /\ UNCHANGED <<caller, duration, segment_seconds, num_segments, i,
                   events, clip_entries, cancel_event, proc, spawned,
                   output_dir, readme_calls, result, cancel_at, returncodes>>

\* VideoSplitterGUI._cancel_split, or any holder of the cancel_event,
\* sets the flag; it runs on another thread than split_video
Cancel ==
    /\ caller # "cli"
    /\ pc \notin {"startup", "exit", "request", "rejected"}
    /\ ~cancel_event
    /\ cancel_event' = TRUE
    /\ cancel_at' = SetAt(SegmentsBegun,
                          pc \notin {"returned", "raised", "caught"})
    /\ UNCHANGED core_run
    /\ UNCHANGED <<tools, convert_to_h264, progress_callback, progress_queue,
                   gui, threads>>
    /\ UNCHANGED <<caller, pc, duration, segment_seconds, num_segments, i,
                   events, clip_entries, proc, spawned, output_dir,
                   readme_calls, result, returncodes>>

\* ------------------------------------------------------ core.split_video

\* lines 249-258: probe the input, read the duration, plan
Plan ==
    /\ pc = "entry"
    /\ \E run \in ProbeRuns :
         IF get_video_info(run) # NoResult
           THEN /\ pc' = "raised"
                /\ result' = get_video_info(run)
                /\ UNCHANGED num_segments
           ELSE IF duration = 0
             THEN /\ pc' = "raised"
                  /\ result' = Raised("VideoInfoError")
                  /\ UNCHANGED num_segments
             ELSE IF segment_seconds = 0
               THEN /\ pc' = "raised"
                    /\ result' = Raised("ZeroDivisionError")
                    /\ UNCHANGED num_segments
               ELSE /\ num_segments' = Ceil(duration, segment_seconds)
                    /\ pc' = "planned"
                    /\ UNCHANGED result
    /\ UNCHANGED core_run
    /\ UNCHANGED <<tools, convert_to_h264, progress_callback, progress_queue,
                   gui, threads>>
    /\ UNCHANGED <<caller, duration, segment_seconds, i, events,
                   clip_entries, cancel_event, proc, spawned, output_dir,
                   readme_calls, cancel_at, returncodes>>

\* NotifyStarted without its event
NotifyStarted_silent ==
    /\ pc = "planned"
    /\ pc' = "makedirs"
    /\ UNCHANGED core_run
    /\ UNCHANGED <<tools, convert_to_h264, progress_callback, progress_queue,
                   gui, threads>>
    /\ UNCHANGED <<caller, duration, segment_seconds, num_segments, i,
                   events, clip_entries, cancel_event, proc, spawned,
                   output_dir, readme_calls, result, cancel_at, returncodes>>

\* lines 265-270: the batch's `started` event
NotifyStarted ==
    /\ pc = "planned"
    /\ notify(BatchProgress(0, NoFile, "started"))
    /\ pc' = "makedirs"
    /\ UNCHANGED core_run
    /\ UNCHANGED <<tools, convert_to_h264, progress_callback, gui, threads>>
    /\ UNCHANGED <<caller, duration, segment_seconds, num_segments, i,
                   clip_entries, cancel_event, proc, spawned, output_dir,
                   readme_calls, result, cancel_at, returncodes>>

\* lines 272-273: create the output directory, start the empty list
Makedirs ==
    /\ pc = "makedirs"
    /\ output_dir' = TRUE
    /\ clip_entries' = <<>>
    /\ i' = 0
    /\ pc' = "loop_top"
    /\ UNCHANGED core_run
    /\ UNCHANGED <<tools, convert_to_h264, progress_callback, progress_queue,
                   gui, threads>>
    /\ UNCHANGED <<caller, duration, segment_seconds, num_segments, events,
                   cancel_event, proc, spawned, readme_calls, result,
                   cancel_at, returncodes>>

\* LoopTop with the `return` after the `cancelled` event missing
LoopTop_noreturn ==
    /\ pc = "loop_top"
    /\ IF ~(i < num_segments)
         THEN /\ pc' = "readme"
              /\ UNCHANGED <<events, progress_queue>>
         ELSE IF cancel_event
           THEN /\ notify(BatchProgress(i + 1, NoFile, "cancelled"))
                /\ pc' = "spawn"
           ELSE /\ notify(SegmentProgress(i, "started"))
                /\ pc' = "spawn"
    /\ UNCHANGED core_run
    /\ UNCHANGED <<tools, convert_to_h264, progress_callback, gui, threads>>
    /\ UNCHANGED <<caller, duration, segment_seconds, num_segments, i,
                   clip_entries, cancel_event, proc, spawned, output_dir,
                   readme_calls, result, cancel_at, returncodes>>

\* LoopTop without the cancel check
LoopTop_nocheck ==
    /\ pc = "loop_top"
    /\ IF ~(i < num_segments)
         THEN /\ pc' = "readme"
              /\ UNCHANGED <<events, progress_queue>>
         ELSE /\ notify(SegmentProgress(i, "started"))
              /\ pc' = "spawn"
    /\ UNCHANGED core_run
    /\ UNCHANGED <<tools, convert_to_h264, progress_callback, gui, threads>>
    /\ UNCHANGED <<caller, duration, segment_seconds, num_segments, i,
                   clip_entries, cancel_event, proc, spawned, output_dir,
                   readme_calls, result, cancel_at, returncodes>>

\* lines 275-298: the top of the loop: leave the loop, or stop on a set
\* cancel flag, or announce the segment
LoopTop ==
    /\ pc = "loop_top"
    /\ IF ~(i < num_segments)
         THEN /\ pc' = "readme"
              /\ UNCHANGED <<events, progress_queue, result>>
         ELSE IF cancel_event
           THEN /\ notify(BatchProgress(i + 1, NoFile, "cancelled"))
                /\ result' = Returned(clip_entries)
                /\ pc' = "returned"
           ELSE /\ notify(SegmentProgress(i, "started"))
                /\ pc' = "spawn"
                /\ UNCHANGED result
    /\ UNCHANGED core_run
    /\ UNCHANGED <<tools, convert_to_h264, progress_callback, gui, threads>>
    /\ UNCHANGED <<caller, duration, segment_seconds, num_segments, i,
                   clip_entries, cancel_event, proc, spawned, output_dir,
                   readme_calls, cancel_at, returncodes>>

\* lines 300-305: build the command and start the encoder
Spawn ==
    /\ pc = "spawn"
    /\ \E out \in 0 .. MaxOutput : proc' = Popen(out)
    /\ spawned' = Append(spawned,
                         [segment |-> i + 1,
                          cmd |-> build_ffmpeg_cmd(out_filename(i),
                                                   start_sec(i),
                                                   seg_duration(i),
                                                   convert_to_h264)])
    /\ pc' = "poll"
    /\ UNCHANGED core_run
    /\ UNCHANGED <<tools, convert_to_h264, progress_callback, progress_queue,
                   gui, threads>>
    /\ UNCHANGED <<caller, duration, segment_seconds, num_segments, i,
                   events, clip_entries, cancel_event, output_dir,
                   readme_calls, result, cancel_at, returncodes>>

\* the encoder can finish its writes: main.py's subprocess.run reads both
\* pipes while it waits (capture_output); split_video reads neither, so
\* the writes finish only if all the output fits into the pipes
WritesComplete == caller = "cli" \/ proc.output <= PipeCapacity

\* the encoder process ends by itself with some exit status once its
\* writes are complete, or, once terminate() signalled it, by that signal
ProcExit ==
    /\ proc.state = "running"
    /\ WritesComplete \/ proc.terminate
    /\ \E rc \in {0, 1} \cup (IF proc.terminate THEN {-15} ELSE {}) :
         proc' = [proc EXCEPT !.state = "exited", !.returncode = rc]
    /\ UNCHANGED core_run
    /\ UNCHANGED <<tools, convert_to_h264, progress_callback, progress_queue,
                   gui, threads>>
    /\ UNCHANGED <<caller, pc, duration, segment_seconds, num_segments, i,
                   events, clip_entries, cancel_event, spawned, output_dir,
                   readme_calls, result, cancel_at, returncodes>>

\* line 307: proc.poll()
Poll ==
    /\ pc = "poll"
    /\ IF proc.state = "exited"
         THEN /\ pc' = "exited"
              /\ returncodes' = Append(returncodes, proc.returncode)
         ELSE /\ pc' = "check_cancel"
              /\ UNCHANGED returncodes
    /\ UNCHANGED core_run
    /\ UNCHANGED <<tools, convert_to_h264, progress_callback, progress_queue,
                   gui, threads>>
    /\ UNCHANGED <<caller, duration, segment_seconds, num_segments, i,
                   events, clip_entries, cancel_event, proc, spawned,
                   output_dir, readme_calls, result, cancel_at>>

\* CheckCancel leaving the subprocess alone
CheckCancel_noterminate ==
    /\ pc = "check_cancel"
    /\ pc' = IF cancel_event THEN "grace_wait" ELSE "wait"
    /\ UNCHANGED core_run
    /\ UNCHANGED <<tools, convert_to_h264, progress_callback, progress_queue,
                   gui, threads>>
    /\ UNCHANGED <<caller, duration, segment_seconds, num_segments, i,
                   events, clip_entries, cancel_event, proc, spawned,
                   output_dir, readme_calls, result, cancel_at, returncodes>>

\* lines 308-309: the polling loop's cancel check; terminate() on a set flag
CheckCancel ==
    /\ pc = "check_cancel"
    /\ IF cancel_event
         THEN /\ proc' = [proc EXCEPT !.terminate = TRUE]
              /\ pc' = "grace_wait"
         ELSE /\ pc' = "wait"
              /\ UNCHANGED proc
    /\ UNCHANGED core_run
    /\ UNCHANGED <<tools, convert_to_h264, progress_callback, progress_queue,
                   gui, threads>>
    /\ UNCHANGED <<caller, duration, segment_seconds, num_segments, i,
                   events, clip_entries, cancel_event, spawned, output_dir,
                   readme_calls, result, cancel_at, returncodes>>

\* Wait without its timeout: proc.wait() returns only when the process
\* has exited
Wait_blocking ==
    /\ pc = "wait" /\ proc.state = "exited"
    /\ pc' = "poll"
    /\ UNCHANGED core_run
    /\ UNCHANGED <<tools, convert_to_h264, progress_callback, progress_queue,
                   gui, threads>>
    /\ UNCHANGED <<caller, duration, segment_seconds, num_segments, i,
                   events, clip_entries, cancel_event, proc, spawned,
                   output_dir, readme_calls, result, cancel_at, returncodes>>

\* lines 321-324: proc.wait(timeout=0.5), ended by the exit or the timeout
Wait ==
    /\ pc = "wait"
    /\ pc' = "poll"
    /\ UNCHANGED core_run
    /\ UNCHANGED <<tools, convert_to_h264, progress_callback, progress_queue,
                   gui, threads>>
    /\ UNCHANGED <<caller, duration, segment_seconds, num_segments, i,
                   events, clip_entries, cancel_event, proc, spawned,
                   output_dir, readme_calls, result, cancel_at, returncodes>>

\* GraceWait with kill() called whether or not the process has exited
GraceWait_kill ==
    /\ pc = "grace_wait"
    /\ proc' = [proc EXCEPT !.kill = TRUE, !.state = "exited",
                            !.returncode = IF proc.state = "exited"
                                             THEN @ ELSE -9]
    /\ notify(SegmentProgress(i, "cancelled"))
    /\ result' = Returned(clip_entries)
    /\ pc' = "returned"
    /\ UNCHANGED core_run
    /\ UNCHANGED <<tools, convert_to_h264, progress_callback, gui, threads>>
    /\ UNCHANGED <<caller, duration, segment_seconds, num_segments, i,
                   clip_entries, cancel_event, spawned, output_dir,
                   readme_calls, cancel_at, returncodes>>

\* lines 310-320: proc.wait(timeout=5); kill() if the process is still
\* running when the wait times out; the `cancelled` event; return
GraceWait ==
    /\ pc = "grace_wait"
    /\ proc' = IF proc.state = "exited"
                 THEN proc
                 ELSE [proc EXCEPT !.kill = TRUE, !.state = "exited",
                                   !.returncode = -9]
    /\ notify(SegmentProgress(i, "cancelled"))
    /\ result' = Returned(clip_entries)
    /\ pc' = "returned"
    /\ UNCHANGED core_run
    /\ UNCHANGED <<tools, convert_to_h264, progress_callback, gui, threads>>
    /\ UNCHANGED <<caller, duration, segment_seconds, num_segments, i,
                   clip_entries, cancel_event, spawned, output_dir,
                   readme_calls, cancel_at, returncodes>>

\* lines 356-364: a non-zero exit: the `failed` event, next segment
HandleFailed ==
    /\ pc = "exited" /\ proc.returncode # 0
    /\ notify(SegmentProgress(i, "failed"))
    /\ i' = i + 1
    /\ pc' = "loop_top"
    /\ UNCHANGED core_run
    /\ UNCHANGED <<tools, convert_to_h264, progress_callback, gui, threads>>
    /\ UNCHANGED <<caller, duration, segment_seconds, num_segments,
                   clip_entries, cancel_event, proc, spawned, output_dir,
                   readme_calls, result, cancel_at, returncodes>>

\* lines 326-346: exit status 0: os.path.getsize and get_video_info of the
\* output file, either of which may raise; nothing in split_video catches
ProbeOutput ==
    /\ pc = "exited" /\ proc.returncode = 0
    /\ \E size_ok \in BOOLEAN, run \in ProbeRuns :
         IF ~size_ok
           THEN pc' = "raised" /\ result' = Raised("OSError")
           ELSE IF get_video_info(run) # NoResult
             THEN pc' = "raised" /\ result' = get_video_info(run)
             ELSE pc' = "append" /\ UNCHANGED result
    /\ UNCHANGED core_run
    /\ UNCHANGED <<tools, convert_to_h264, progress_callback, progress_queue,
                   gui, threads>>
    /\ UNCHANGED <<caller, duration, segment_seconds, num_segments, i,
                   events, clip_entries, cancel_event, proc, spawned,
                   output_dir, readme_calls, cancel_at, returncodes>>

\* AppendEntry keeping only the newest entry
AppendEntry_replace ==
    /\ pc = "append"
    /\ clip_entries' = <<ClipEntry(i)>>
    /\ pc' = "notify_done"
    /\ UNCHANGED core_run
    /\ UNCHANGED <<tools, convert_to_h264, progress_callback, progress_queue,
                   gui, threads>>
    /\ UNCHANGED <<caller, duration, segment_seconds, num_segments, i,
                   events, cancel_event, proc, spawned, output_dir,
                   readme_calls, result, cancel_at, returncodes>>

\* line 347: clip_entries.append(entry)
AppendEntry ==
    /\ pc = "append"
    /\ clip_entries' = Append(clip_entries, ClipEntry(i))
    /\ pc' = "notify_done"
    /\ UNCHANGED core_run
    /\ UNCHANGED <<tools, convert_to_h264, progress_callback, progress_queue,
                   gui, threads>>
    /\ UNCHANGED <<caller, duration, segment_seconds, num_segments, i,
                   events, cancel_event, proc, spawned, output_dir,
                   readme_calls, result, cancel_at, returncodes>>

\* lines 349-355: the segment's `done` event, next segment
NotifyDone ==
    /\ pc = "notify_done"
    /\ notify(SegmentProgress(i, "done"))
    /\ i' = i + 1
    /\ pc' = "loop_top"
    /\ UNCHANGED core_run
    /\ UNCHANGED <<tools, convert_to_h264, progress_callback, gui, threads>>
    /\ UNCHANGED <<caller, duration, segment_seconds, num_segments,
                   clip_entries, cancel_event, proc, spawned, output_dir,
                   readme_calls, result, cancel_at, returncodes>>

\* Readme without the test of clip_entries
Readme_always ==
    /\ pc = "readme"
    /\ readme_calls' = readme_calls + 1
    /\ notify(BatchProgress(num_segments, ReadmeFile, "done"))
    /\ pc' = "final"
    /\ UNCHANGED core_run
    /\ UNCHANGED <<tools, convert_to_h264, progress_callback, gui, threads>>
    /\ UNCHANGED <<caller, duration, segment_seconds, num_segments, i,
                   clip_entries, cancel_event, proc, spawned, output_dir,
                   result, cancel_at, returncodes>>

\* lines 366-377: generate_readme and its `done` event, if any clip exists
Readme ==
    /\ pc = "readme"
    /\ IF clip_entries # <<>>
         THEN /\ readme_calls' = readme_calls + 1
              /\ notify(BatchProgress(num_segments, ReadmeFile, "done"))
         ELSE UNCHANGED <<readme_calls, events, progress_queue>>
    /\ pc' = "final"
    /\ UNCHANGED core_run
    /\ UNCHANGED <<tools, convert_to_h264, progress_callback, gui, threads>>
    /\ UNCHANGED <<caller, duration, segment_seconds, num_segments, i,
                   clip_entries, cancel_event, proc, spawned, output_dir,
                   result, cancel_at, returncodes>>

\* FinalDone without its event
FinalDone_silent ==
    /\ pc = "final"
    /\ result' = Returned(clip_entries)
    /\ pc' = "returned"
    /\ UNCHANGED core_run
    /\ UNCHANGED <<tools, convert_to_h264, progress_callback, progress_queue,
                   gui, threads>>
    /\ UNCHANGED <<caller, duration, segment_seconds, num_segments, i,
                   events, clip_entries, cancel_event, proc, spawned,
                   output_dir, readme_calls, cancel_at, returncodes>>

\* lines 379-386: the final `done` event; return clip_entries
FinalDone ==
    /\ pc = "final"
    /\ notify(BatchProgress(num_segments, NoFile, "done"))
    /\ result' = Returned(clip_entries)
    /\ pc' = "returned"
    /\ UNCHANGED core_run
    /\ UNCHANGED <<tools, convert_to_h264, progress_callback, gui, threads>>
    /\ UNCHANGED <<caller, duration, segment_seconds, num_segments, i,
                   clip_entries, cancel_event, proc, spawned, output_dir,
                   readme_calls, cancel_at, returncodes>>

\* VideoSplitterGUI._split_worker, lines 255-261: split_video raised in the
\* GUI's worker thread: put a `failed` value with index 0 and total 0
split_worker_except ==
    /\ caller = "gui" /\ pc = "raised"
    /\ progress_queue' =
         Append(progress_queue,
                SplitProgress(0, 0, NoLabel, NoLabel, NoFile, "failed"))
    /\ pc' = "caught"
    /\ UNCHANGED core_run
    /\ UNCHANGED <<tools, convert_to_h264, progress_callback, gui, threads>>
    /\ UNCHANGED <<caller, duration, segment_seconds, num_segments, i,
                   events, clip_entries, cancel_event, proc, spawned,
                   output_dir, readme_calls, result, cancel_at, returncodes>>

\* ------------------------------------------------- main.py, the CLI

\* main.py has its own copies of the helpers; main.seconds_to_hm: "HH:MM"
main_seconds_to_hm(t) ==
    fmt02d(t \div (3600 * TicksPerSecond)) \o <<":">>
    \o fmt02d((t % (3600 * TicksPerSecond)) \div (60 * TicksPerSecond))

\* main.seconds_to_hhmmss: "HH:MM:SS"
main_seconds_to_hhmmss(t) ==
    fmt02d(t \div (3600 * TicksPerSecond)) \o <<":">>
    \o fmt02d((t % (3600 * TicksPerSecond)) \div (60 * TicksPerSecond))
    \o <<":">>
    \o fmt02d((t % (60 * TicksPerSecond)) \div TicksPerSecond)

\* main.sanitize_filename
main_sanitize_filename(name) ==
    [n \in 1 .. Len(name) |-> IF name[n] = ":" THEN "-" ELSE name[n]]

\* main.split_video, lines 279-281: the plan of segment k
main_start_sec(k) == k * segment_seconds
main_end_sec(k) == Min(main_start_sec(k) + segment_seconds, duration)
main_seg_duration(k) == main_end_sec(k) - main_start_sec(k)

\* main.split_video, lines 282-284: the labels and the file name
main_out_filename(k) ==
    [kind  |-> "segment.mp4",
     start |-> main_sanitize_filename(main_seconds_to_hm(main_start_sec(k))),
     end   |-> main_sanitize_filename(main_seconds_to_hm(main_end_sec(k)))]

\* main.split_video, lines 289-299: the command, built in place
main_cmd(out_path, start, seg_len, convert) ==
    <<Arg("ffmpeg"), Arg("-y"),
      Arg("-ss"), [hhmmss |-> main_seconds_to_hhmmss(start)],
      Arg("-i"), input_path,
      Arg("-t"), [str |-> seg_len]>>
    \o (IF convert
          THEN <<Arg("-c:v"), Arg("h264_nvenc"), Arg("-preset"), Arg("p5"),
                 Arg("-cq"), Arg("23"),
                 Arg("-c:a"), Arg("aac"), Arg("-b:a"), Arg("192k")>>
          ELSE <<Arg("-c:v"), Arg("copy"), Arg("-c:a"), Arg("copy")>>)
    \o <<[path |-> out_path]>>

\* main.split_video, lines 311-324: the clip entry of segment k
main_clip_entry(k) ==
    [segment      |-> k + 1,
     filename     |-> main_out_filename(k),
     start_label  |-> main_seconds_to_hm(main_start_sec(k)),
     end_label    |-> main_seconds_to_hm(main_end_sec(k)),
     duration_sec |-> main_seg_duration(k)]

\* main(): the prompt for the segment length; a value that is not positive
\* or not shorter than the video is refused and asked for again
CliPromptMinutes ==
    /\ caller = "cli" /\ pc = "request"
    /\ pc' = IF segment_seconds <= 0 \/ segment_seconds >= duration
               THEN "rejected"
               ELSE "main_entry"
    /\ UNCHANGED core_run
    /\ UNCHANGED <<tools, convert_to_h264, progress_callback, progress_queue,
                   gui, threads>>
    /\ UNCHANGED <<caller, duration, segment_seconds, num_segments, i,
                   events, clip_entries, cancel_event, proc, spawned,
                   output_dir, readme_calls, result, cancel_at, returncodes>>

\* main.split_video, lines 250-262: probe, duration, plan; sys.exit(1) when
\* the probe fails or the duration is 0
MainPlan ==
    /\ pc = "main_entry"
    /\ \E probe_ok \in BOOLEAN :
         IF ~probe_ok \/ duration = 0
           THEN /\ pc' = "raised"
                /\ result' = Raised("SystemExit")
                /\ UNCHANGED num_segments
           ELSE IF segment_seconds = 0
             THEN /\ pc' = "raised"
                  /\ result' = Raised("ZeroDivisionError")
                  /\ UNCHANGED num_segments
             ELSE /\ num_segments' = Ceil(duration, segment_seconds)
                  /\ pc' = "main_makedirs"
                  /\ UNCHANGED result
    /\ UNCHANGED core_run
    /\ UNCHANGED <<tools, convert_to_h264, progress_callback, progress_queue,
                   gui, threads>>
    /\ UNCHANGED <<caller, duration, segment_seconds, i, events,
                   clip_entries, cancel_event, proc, spawned, output_dir,
                   readme_calls, cancel_at, returncodes>>

\* main.split_video, lines 273-276
MainMakedirs ==
    /\ pc = "main_makedirs"
    /\ output_dir' = TRUE
    /\ clip_entries' = <<>>
    /\ i' = 0
    /\ pc' = "main_loop_top"
    /\ UNCHANGED core_run
    /\ UNCHANGED <<tools, convert_to_h264, progress_callback, progress_queue,
                   gui, threads>>
    /\ UNCHANGED <<caller, duration, segment_seconds, num_segments, events,
                   cancel_event, proc, spawned, readme_calls, result,
                   cancel_at, returncodes>>

\* main.split_video, lines 278-301: build the command and subprocess.run it
MainRun ==
    /\ pc = "main_loop_top"
    /\ IF i < num_segments
         THEN /\ \E out \in 0 .. MaxOutput : proc' = Popen(out)
              /\ spawned' = Append(spawned,
                                   [segment |-> i + 1,
                                    cmd |-> main_cmd(
                                                main_out_filename(i),
                                                main_start_sec(i),
                                                main_seg_duration(i),
                                                convert_to_h264)])
              /\ pc' = "main_run"
         ELSE /\ pc' = "main_readme"
              /\ UNCHANGED <<proc, spawned>>
    /\ UNCHANGED core_run
    /\ UNCHANGED <<tools, convert_to_h264, progress_callback, progress_queue,
                   gui, threads>>
    /\ UNCHANGED <<caller, duration, segment_seconds, num_segments, i,
                   events, clip_entries, cancel_event, output_dir,
                   readme_calls, result, cancel_at, returncodes>>

\* main.split_video, lines 301-327: subprocess.run returns when the encoder
\* has exited; status 0: size, probe (sys.exit(1) if it fails), append
MainHandleExit ==
    /\ pc = "main_run" /\ proc.state = "exited"
    /\ returncodes' = Append(returncodes, proc.returncode)
    /\ \E probe_ok \in BOOLEAN :
         IF proc.returncode # 0
           THEN /\ i' = i + 1
                /\ pc' = "main_loop_top"
                /\ UNCHANGED <<clip_entries, result>>
           ELSE IF probe_ok
             THEN /\ clip_entries' = Append(clip_entries, main_clip_entry(i))
                  /\ i' = i + 1
                  /\ pc' = "main_loop_top"
                  /\ UNCHANGED result
             ELSE /\ pc' = "raised"
                  /\ result' = Raised("SystemExit")
                  /\ UNCHANGED <<clip_entries, i>>
    /\ UNCHANGED core_run
    /\ UNCHANGED <<tools, convert_to_h264, progress_callback, progress_queue,
                   gui, threads>>
    /\ UNCHANGED <<caller, duration, segment_seconds, num_segments, events,
                   cancel_event, proc, spawned, output_dir, readme_calls,
                   cancel_at>>

\* MainReadme without the test of clip_entries
MainReadme_always ==
    /\ pc = "main_readme"
    /\ readme_calls' = readme_calls + 1
    /\ result' = Returned(<<>>)
    /\ pc' = "returned"
    /\ UNCHANGED core_run
    /\ UNCHANGED <<tools, convert_to_h264, progress_callback, progress_queue,
                   gui, threads>>
    /\ UNCHANGED <<caller, duration, segment_seconds, num_segments, i,
                   events, clip_entries, cancel_event, proc, spawned,
                   output_dir, cancel_at, returncodes>>

\* main.split_video, lines 329-338: the README if any clip exists; return
MainReadme ==
    /\ pc = "main_readme"
    /\ readme_calls' = IF clip_entries # <<>> THEN readme_calls + 1
                         ELSE readme_calls
    /\ result' = Returned(<<>>)
    /\ pc' = "returned"
    /\ UNCHANGED core_run
    /\ UNCHANGED <<tools, convert_to_h264, progress_callback, progress_queue,
                   gui, threads>>
    /\ UNCHANGED <<caller, duration, segment_seconds, num_segments, i,
                   events, clip_entries, cancel_event, proc, spawned,
                   output_dir, cancel_at, returncodes>>

\* ------------------------------------------------- gui.py, the GUI
\*
\* GuiSpec follows the threads of the GUI: the main thread, which runs one
\* handler at a time, and the split worker threads. A worker's call of
\* split_video is followed by its accesses to what the threads share: the
\* cancel flag, progress_queue and the encoder processes. In GuiSpec
\* `duration` is video_summary["duration"] (0: no summary loaded) and
\* `segment_seconds` is minutes_var * 60.

\* the variables of the single call of split_video that Spec follows
callvars == <<caller, pc, num_segments, i, events, clip_entries, proc,
              spawned, output_dir, readme_calls, result, cancel_at,
              returncodes, convert_to_h264, progress_callback, tools,
              core_run>>

\* the files the user can choose, each named by its duration
GuiVideos == {MaxGuiSegments * TicksPerSecond}

\* the text of status_var: the texts that tell how a batch ended are kept,
\* every other text (the progress messages, "Ready", "Cancelling...") is
\* one and the same text "..."
status_text(s) ==
    IF s \in {"Cancelled", "Cancelled by user", "Splitting complete!"}
      THEN s ELSE "..."

\* VideoSplitterGUI.__init__ and _build_ui: nothing loaded, both buttons
\* disabled, no worker
GuiInit ==
    /\ caller = "gui"
    /\ pc = "request"
    /\ tools = ToolsOk
    /\ core_run = NoCoreRun
    /\ duration = 0
    /\ segment_seconds = TicksPerSecond
    /\ num_segments = 0
    /\ i = 0
    /\ events = <<>>
    /\ clip_entries = <<>>
    /\ cancel_event = FALSE
    /\ cancel_at = NeverSet
    /\ proc = NoProc
    /\ spawned = <<>>
    /\ output_dir = FALSE
    /\ readme_calls = 0
    /\ result = NoResult
    /\ returncodes = <<>>
    /\ convert_to_h264 = FALSE
    /\ progress_callback = "progress_queue.put"
    /\ progress_queue = <<>>
    /\ gui = [main |-> "idle", input_var |-> 0, start_btn |-> FALSE,
              cancel_btn |-> FALSE, value |-> 0, maximum |-> 100,
              status_var |-> status_text("Ready"), after |-> 0,
              split_thread |-> 0]
    /\ threads = <<>>

\* a thread is alive from its start until its target returns
is_alive(w) == threads[w].pc # "dead"

\* the worker threads that are alive
AliveThreads == {w \in 1 .. Len(threads) : is_alive(w)}

\* the encoder processes that are running
RunningEncoders == {w \in 1 .. Len(threads) : threads[w].proc = "running"}

\* a SplitProgress value as _handle_progress reads it: the index and the
\* status (the message is told by the status)
QueuedProgress(idx, st) == [segment_index |-> idx, status |-> st]

\* the value _split_worker makes when split_video raised
WorkerFailure == QueuedProgress(0, "failed")

\* _split_worker's callback: progress_queue.put(progress); the queue has no
\* maximum size
put(progress) == progress_queue' = Append(progress_queue, progress)

\* _browse_input and _load_video_info: the chosen path is stored; if its
\* summary can be read the summary is stored and the Start button enabled
BrowseInput ==
    /\ gui.main = "idle"
    /\ \E file \in GuiVideos, summary_ok \in BOOLEAN :
         IF summary_ok
           THEN /\ duration' = file
                /\ gui' = [gui EXCEPT !.input_var = file,
                                      !.start_btn = TRUE,
                                      !.status_var =
                                        status_text("Ready - video loaded")]
           ELSE /\ duration' = duration
                /\ gui' = [gui EXCEPT !.input_var = file,
                                      !.status_var = status_text("Ready")]
    /\ UNCHANGED <<segment_seconds, cancel_event, progress_queue, threads>>
    /\ UNCHANGED callvars

\* a thread object started on _split_worker for the chosen file: its
\* position and the frame of its call of split_video; clip_entries is
\* whether the list holds an entry, proc the state of the segment's encoder.
\* Two fields record the batch's history: `failed`, whether it has
\* emitted a `failed` event of a segment, and `outcome`, how the call of
\* split_video ended ("" while it runs)
NewThread ==
    [pc |-> "entry", duration |-> gui.input_var,
     segment_seconds |-> segment_seconds, num_segments |-> 0, i |-> 0,
     clip_entries |-> FALSE, proc |-> "none", failed |-> FALSE,
     outcome |-> ""]

\* a thread whose call of split_video has ended (its frame is gone, its
\* encoder has exited): at position "return" _split_worker is about to
\* return, at "dead" the thread has ended
Gone(p, how, f) ==
    [pc |-> p, duration |-> 0, segment_seconds |-> 0,
     num_segments |-> 0, i |-> 0, clip_entries |-> FALSE,
     proc |-> "none", failed |-> f, outcome |-> how]

\* _start_split, a click on the enabled Start button: when the inputs are
\* valid, disable Start, enable Cancel, clear the cancel flag, reset the
\* progress bar, start a worker thread, schedule _poll_progress (with
\* invalid inputs the handler changes nothing)
start_split ==
    /\ gui.main = "idle" /\ gui.start_btn
    /\ Len(threads) < MaxThreads
    /\ validate_inputs
    /\ cancel_event' = FALSE
    /\ threads' = Append(threads, NewThread)
    /\ gui' = [gui EXCEPT !.start_btn = FALSE, !.cancel_btn = TRUE,
                          !.maximum = Ceil(duration, segment_seconds),
                          !.value = 0,
                          !.split_thread = Len(threads) + 1,
                          !.after = @ + 1]
    /\ UNCHANGED <<duration, segment_seconds, progress_queue>>
    /\ UNCHANGED callvars

\* _cancel_split, a click on the enabled Cancel button
cancel_split ==
    /\ gui.main = "idle" /\ gui.cancel_btn
    /\ cancel_event' = TRUE
    /\ gui' = [gui EXCEPT !.status_var = status_text("Cancelling...")]
    /\ UNCHANGED <<duration, segment_seconds, progress_queue, threads>>
    /\ UNCHANGED callvars

\* _handle_progress: the message becomes the status; a `done` value with a
\* positive index moves the progress bar; `cancelled` sets the status
handle_progress(g, progress) ==
    [g EXCEPT
       !.status_var = IF progress.status = "cancelled"
                        THEN status_text("Cancelled")
                        ELSE status_text("progress.message"),
       !.value = IF progress.status = "done" /\ progress.segment_index > 0
                   THEN progress.segment_index ELSE @]

\* _handle_progress for every value of the sequence q, in order
RECURSIVE handle_all(_, _)
handle_all(g, q) ==
    IF q = <<>> THEN g
    ELSE handle_all(handle_progress(g, Head(q)), Tail(q))

\* _poll_progress, lines 264-269: take and handle every value of the queue
\* until it is empty
poll_progress ==
    /\ gui.main = "idle" /\ gui.after > 0
    /\ progress_queue' = <<>>
    /\ gui' = [handle_all(gui, progress_queue)
                 EXCEPT !.main = "poll_check", !.after = gui.after - 1]
    /\ UNCHANGED <<duration, segment_seconds, cancel_event, threads>>
    /\ UNCHANGED callvars

\* _on_split_finished: enable Start, disable Cancel; report the
\* cancellation if the flag is set, else the completion (status and
\* dialog) if the progress bar is full
on_split_finished(g) ==
    LET h == [g EXCEPT !.start_btn = TRUE, !.cancel_btn = FALSE]
    IN  IF cancel_event
          THEN [h EXCEPT !.status_var = status_text("Cancelled by user")]
          ELSE IF h.value >= h.maximum
            THEN [h EXCEPT !.status_var = status_text("Splitting complete!"),
                           !.main = "showinfo"]
            ELSE h

\* _poll_progress, lines 271-274: poll again in 100 ms while split_thread
\* is alive, else _on_split_finished
poll_check ==
    /\ gui.main = "poll_check"
    /\ gui' = IF is_alive(gui.split_thread)
                THEN [gui EXCEPT !.main = "idle", !.after = @ + 1]
                ELSE on_split_finished([gui EXCEPT !.main = "idle"])
    /\ UNCHANGED <<duration, segment_seconds, cancel_event, progress_queue,
                   threads>>
    /\ UNCHANGED callvars

\* the user closes the dialog "Video splitting finished successfully!"
close_showinfo ==
    /\ gui.main = "showinfo"
    /\ gui' = [gui EXCEPT !.main = "idle"]
    /\ UNCHANGED <<duration, segment_seconds, cancel_event, progress_queue,
                   threads>>
    /\ UNCHANGED callvars

\* what a worker step leaves alone
WorkerFrame ==
    /\ UNCHANGED <<duration, segment_seconds, cancel_event, gui>>
    /\ UNCHANGED callvars

\* split_video in worker w, lines 248-273: probe and plan, the `started`
\* value; a failing probe or a duration of 0 raises, and _split_worker
\* (lines 255-261) puts its `failed` value
WorkerPlan(w) ==
    /\ threads[w].pc = "entry"
    /\ \E probe_ok \in BOOLEAN :
         IF ~probe_ok \/ threads[w].duration = 0
           THEN /\ threads' = [threads EXCEPT
                                 ![w] = Gone("return", "raised", FALSE)]
                /\ put(WorkerFailure)
           ELSE LET n == Ceil(threads[w].duration, threads[w].segment_seconds)
                IN  /\ threads' = [threads EXCEPT ![w].pc = "loop_top",
                                                  ![w].num_segments = n]
                    /\ put(QueuedProgress(0, "started"))
    /\ WorkerFrame

\* split_video in worker w, lines 275-305: the top of the loop: stop on a
\* set cancel flag, or announce the segment and start its encoder
WorkerLoopTop(w) ==
    /\ threads[w].pc = "loop_top"
    /\ threads[w].i < threads[w].num_segments
    /\ IF cancel_event
         THEN /\ put(QueuedProgress(threads[w].i + 1, "cancelled"))
              /\ threads' = [threads EXCEPT
                               ![w] = Gone("return", "cancelled",
                                           threads[w].failed)]
         ELSE /\ put(QueuedProgress(threads[w].i + 1, "started"))
              /\ threads' = [threads EXCEPT ![w].pc = "poll",
                                            ![w].proc = "running"]
    /\ WorkerFrame

\* split_video in worker w, lines 307-324 with the flag set: terminate the
\* encoder, wait, kill it if it is still running, the `cancelled` value
WorkerCancel(w) ==
    /\ threads[w].pc = "poll" /\ threads[w].proc = "running"
    /\ cancel_event
    /\ put(QueuedProgress(threads[w].i + 1, "cancelled"))
    /\ threads' = [threads EXCEPT
                     ![w] = Gone("return", "cancelled", threads[w].failed)]
    /\ WorkerFrame

\* split_video in worker w, lines 307, 326-364: poll() finds the encoder
\* exited; status 0: probe the output, append, the `done` value (a failing
\* probe raises, and _split_worker puts its `failed` value); otherwise the
\* segment's `failed` value
WorkerExited(w) ==
    /\ threads[w].pc = "poll" /\ threads[w].proc = "running"
    /\ \E returncode \in {0, 1}, probe_ok \in BOOLEAN :
         IF returncode # 0
           THEN /\ put(QueuedProgress(threads[w].i + 1, "failed"))
                /\ threads' = [threads EXCEPT ![w].pc = "loop_top",
                                              ![w].proc = "exited",
                                              ![w].i = @ + 1,
                                              ![w].failed = TRUE]
           ELSE IF probe_ok
             THEN /\ put(QueuedProgress(threads[w].i + 1, "done"))
                  /\ threads' = [threads EXCEPT ![w].pc = "loop_top",
                                                ![w].proc = "exited",
                                                ![w].i = @ + 1,
                                                ![w].clip_entries = TRUE]
             ELSE /\ threads' = [threads EXCEPT
                                   ![w] = Gone("return", "raised",
                                               threads[w].failed)]
                  /\ put(WorkerFailure)
    /\ WorkerFrame

\* split_video in worker w, lines 366-386: after the loop, the README and
\* its value if there is a clip entry, the final `done` value; return
WorkerFinal(w) ==
    /\ threads[w].pc = "loop_top"
    /\ ~(threads[w].i < threads[w].num_segments)
    /\ progress_queue' =
         progress_queue
         \o (IF threads[w].clip_entries
               THEN <<QueuedProgress(threads[w].num_segments, "done")>>
               ELSE <<>>)
         \o <<QueuedProgress(threads[w].num_segments, "done")>>
    /\ threads' = [threads EXCEPT
                     ![w] = Gone("return", "completed", threads[w].failed)]
    /\ WorkerFrame

\* _split_worker returns: the thread ends
WorkerReturn(w) ==
    /\ threads[w].pc = "return"
    /\ threads' = [threads EXCEPT
                     ![w] = Gone("dead", threads[w].outcome,
                                 threads[w].failed)]
    /\ UNCHANGED progress_queue
    /\ WorkerFrame

GuiNext ==
    \/ BrowseInput
    \/ start_split
    \/ cancel_split
    \/ poll_progress
    \/ poll_check
    \/ close_showinfo
    \/ \E w \in 1 .. Len(threads) : WorkerPlan(w)
    \/ \E w \in 1 .. Len(threads) : WorkerLoopTop(w)
    \/ \E w \in 1 .. Len(threads) : WorkerCancel(w)
    \/ \E w \in 1 .. Len(threads) : WorkerExited(w)
    \/ \E w \in 1 .. Len(threads) : WorkerFinal(w)
    \/ \E w \in 1 .. Len(threads) : WorkerReturn(w)

GuiSpec == GuiInit /\ [][GuiNext]_vars

Next ==
    \/ GuiCheckFfmpeg
    \/ MainCheckFfmpeg
    \/ GuiStartSplit
    \/ DirectCall
    \/ CliPromptMinutes
    \/ MainPlan
    \/ MainMakedirs
    \/ MainRun
    \/ MainHandleExit
    \/ MainReadme
    \/ Cancel
    \/ Plan
    \/ NotifyStarted
    \/ Makedirs
    \/ LoopTop
    \/ Spawn
    \/ ProcExit
    \/ Poll
    \/ CheckCancel
    \/ Wait
    \/ GraceWait
    \/ HandleFailed
    \/ ProbeOutput
    \/ AppendEntry
    \/ NotifyDone
    \/ Readme
    \/ FinalDone
    \/ split_worker_except

Spec == Init /\ [][Next]_vars

\* the steps of the thread that runs split_video (and, in the GUI, the
\* handler of _split_worker around it)
SplitVideoStep ==
    \/ Plan
    \/ NotifyStarted
    \/ Makedirs
    \/ LoopTop
    \/ Spawn
    \/ Poll
    \/ CheckCancel
    \/ Wait
    \/ GraceWait
    \/ HandleFailed
    \/ ProbeOutput
    \/ AppendEntry
    \/ NotifyDone
    \/ Readme
    \/ FinalDone
    \/ split_worker_except

\* Spec with a thread of split_video that keeps being scheduled; nothing is
\* assumed of the encoder process, which may run forever, nor of the
\* holder of the cancel flag
LiveSpec == Spec /\ WF_vars(SplitVideoStep)

\* LiveSpec with encoder processes that end by themselves
FairSpec == Spec /\ WF_vars(SplitVideoStep) /\ WF_vars(ProcExit)

\* ------------------------------- core.split_video and main.split_video
\*
\* EquivSpec follows a call of core.split_video without a cancel_event to
\* its end and then the call of main.split_video, the function it was
\* extracted from, with the same arguments on the same file.

\* a call of core.split_video, no cancel_event given
EquivInit == Init /\ caller = "direct" /\ ~cancel_event

\* core.split_video has ended: keep what it did and call main.split_video
\* with the same input_path, segment_duration_minutes and convert_to_h264
CallOriginal ==
    /\ caller = "direct" /\ pc \in {"returned", "raised"}
    /\ core_run = NoCoreRun
    /\ core_run' = [ended |-> pc, spawned |-> spawned,
                    clip_entries |-> clip_entries,
                    readme_calls |-> readme_calls,
                    returncodes |-> returncodes]
    /\ caller' = "cli"
    /\ pc' = "main_entry"
    /\ progress_callback' = "none"
    /\ num_segments' = 0
    /\ i' = 0
    /\ events' = <<>>
    /\ clip_entries' = <<>>
    /\ proc' = NoProc
    /\ spawned' = <<>>
    /\ output_dir' = FALSE
    /\ readme_calls' = 0
    /\ result' = NoResult
    /\ returncodes' = <<>>
    /\ UNCHANGED <<duration, segment_seconds, convert_to_h264, cancel_event,
                   cancel_at, progress_queue, gui, threads, tools>>

EquivNext ==
    \/ DirectCall
    \/ Plan
    \/ NotifyStarted
    \/ Makedirs
    \/ LoopTop
    \/ Spawn
    \/ ProcExit
    \/ Poll
    \/ CheckCancel
    \/ Wait
    \/ HandleFailed
    \/ ProbeOutput
    \/ AppendEntry
    \/ NotifyDone
    \/ Readme
    \/ FinalDone
    \/ CallOriginal
    \/ MainPlan
    \/ MainMakedirs
    \/ MainRun
    \/ MainHandleExit
    \/ MainReadme

EquivSpec == EquivInit /\ [][EquivNext]_vars

\* ------------------------------------------------------------- the claims

\* the last event passed to notify
LastEvent == events[Len(events)]

\* the run is one of core.split_video
CoreRun == caller # "cli"

\* the argument that follows the option opt in the command line cmd
OptionValue(cmd, opt) ==
    cmd[(CHOOSE n \in 1 .. Len(cmd) - 1 : cmd[n] = Arg(opt)) + 1]

\* C1: for a total duration D > 0 and a segment length S with 0 < S < D the
\* planned segments are N = ceil(D/S) many ((N-1)*S < D <= N*S), start at 0,
\* are contiguous, end at D, every segment but the last is S long and the
\* last is D - (N-1)*S > 0 long; the encoder is given these durations
C1_PlanCoversDuration ==
    (CoreRun /\ duration > 0 /\ 0 < segment_seconds
       /\ segment_seconds < duration /\ num_segments # 0)
    => /\ (num_segments - 1) * segment_seconds < duration
       /\ duration <= num_segments * segment_seconds
       /\ start_sec(0) = 0
       /\ \A k \in 0 .. num_segments - 2 :
            /\ end_sec(k) = start_sec(k + 1)
            /\ seg_duration(k) = segment_seconds
       /\ end_sec(num_segments - 1) = duration
       /\ seg_duration(num_segments - 1)
            = duration - (num_segments - 1) * segment_seconds
       /\ seg_duration(num_segments - 1) > 0
       /\ \A n \in 1 .. Len(spawned) :
            OptionValue(spawned[n].cmd, "-t").str =
              IF spawned[n].segment < num_segments
                THEN segment_seconds
                ELSE duration - (num_segments - 1) * segment_seconds

\* C1 witness: 1500 s in segments of 600 s ran to its end: 3 encoder
\* runs, the last one 300 s long
C1_Witness ==
    /\ CoreRun /\ pc = "returned"
    /\ duration = 1500 * TicksPerSecond
    /\ segment_seconds = 600 * TicksPerSecond
    /\ num_segments = 3 /\ Len(spawned) = 3
    /\ OptionValue(spawned[3].cmd, "-t").str = 300 * TicksPerSecond
    /\ end_sec(0) = 600 * TicksPerSecond /\ end_sec(1) = 1200 * TicksPerSecond

\* a `cancelled` event of the top of the loop carries no filename, one of
\* the polling loop carries the segment's
IsTopCancel(e) == e.status = "cancelled" /\ e.filename = NoFile
IsMidCancel(e) == e.status = "cancelled" /\ e.filename # NoFile

\* C2: with the cancel flag set at the top of the loop for segment i,
\* split_video emits `cancelled` for that segment's index and returns the
\* entries accumulated so far; no encoder is spawned for segment i or later
C2_CancelAtLoopTop ==
    /\ [][(CoreRun /\ pc = "loop_top" /\ i < num_segments /\ cancel_event)
           => /\ pc' = "returned"
              /\ Len(events') = Len(events) + 1
              /\ events'[Len(events')].status = "cancelled"
              /\ events'[Len(events')].segment_index = i + 1
              /\ result' = Returned(clip_entries)
              /\ spawned' = spawned]_vars
    /\ [](\A n \in 1 .. Len(events) :
            IsTopCancel(events[n])
            => /\ n = Len(events)
               /\ pc = "returned"
               /\ result = Returned(clip_entries)
               /\ proc.state # "running"
               /\ \A j \in 1 .. Len(spawned) :
                    spawned[j].segment < events[n].segment_index)

\* C2 witness: the flag was found set at the top of the loop for segment 2;
\* the one entry of segment 1 is returned, one encoder ran
C2_Witness ==
    /\ CoreRun /\ pc = "returned"
    /\ events # <<>> /\ IsTopCancel(LastEvent)
    /\ LastEvent.segment_index = 2
    /\ Len(result.value) = 1 /\ Len(spawned) = 1

\* C3: a cancel flag seen by the polling loop makes split_video terminate
\* the subprocess, emit `cancelled` for the segment and return; the segment
\* never gets a clip entry, however flag, exit and polling interleave
C3_CancelMidSegment ==
    /\ [][(CoreRun /\ pc = "check_cancel" /\ cancel_event /\ pc' # pc)
           => (proc'.terminate /\ pc' = "grace_wait")]_vars
    /\ [][(CoreRun /\ pc = "grace_wait" /\ pc' # pc)
           => /\ pc' = "returned"
              /\ Len(events') = Len(events) + 1
              /\ IsMidCancel(events'[Len(events')])
              /\ events'[Len(events')].segment_index = i + 1
              /\ result' = Returned(clip_entries)
              /\ clip_entries' = clip_entries]_vars
    /\ [](\A n \in 1 .. Len(events) :
            IsMidCancel(events[n])
            => /\ n = Len(events)
               /\ pc = "returned"
               /\ proc.terminate /\ proc.state = "exited"
               /\ \A j \in 1 .. Len(clip_entries) :
                    clip_entries[j].segment # events[n].segment_index
               /\ \A j \in 1 .. Len(result.value) :
                    result.value[j].segment # events[n].segment_index)

\* C3 witness: segment 2 was cancelled in the polling loop although its
\* encoder had meanwhile exited with status 0; only segment 1 has an entry
C3_Witness ==
    /\ CoreRun /\ pc = "returned"
    /\ events # <<>> /\ IsMidCancel(LastEvent)
    /\ LastEvent.segment_index = 2
    /\ proc.terminate /\ proc.returncode = 0 /\ ~proc.kill
    /\ Len(result.value) = 1 /\ result.value[1].segment = 1

\* an event with status st and segment index idx was emitted
Emitted(idx, st) ==
    \E n \in 1 .. Len(events) :
        events[n].segment_index = idx /\ events[n].status = st
        /\ events[n].filename # NoFile

\* C4: if the cancel flag was set before segment k began, the returned list
\* has at most k-1 entries, all of segments before k that had completed,
\* and the run's last event is `cancelled`
C4_CancelBeforeSegment ==
    (CoreRun /\ pc = "returned" /\ cancel_at.set /\ cancel_at.running)
    => \A k \in cancel_at.begun + 1 .. num_segments :
         /\ Len(result.value) <= k - 1
         /\ \A j \in 1 .. Len(result.value) :
              /\ result.value[j].segment < k
              /\ Emitted(result.value[j].segment, "done")
         /\ events # <<>> /\ LastEvent.status = "cancelled"

\* C4 witness: the flag was set while segment 1 was being processed, after
\* its encoder's exit had been polled: segment 1 completed, segment 2 of 3
\* was refused at the top of the loop
C4_Witness ==
    /\ CoreRun /\ pc = "returned" /\ num_segments = 3
    /\ cancel_at.set /\ cancel_at.running /\ cancel_at.begun = 1
    /\ Len(result.value) = 1
    /\ events # <<>> /\ IsTopCancel(LastEvent)
    /\ LastEvent.segment_index = 2

\* the flag was set while split_video was running
Cancelled == cancel_at.set /\ cancel_at.running

\* split_video has ended, by a return or by an exception
Ended == pc \in {"returned", "raised"}

\* the segments (1-based) among the first n whose encoder exited with 0
RECURSIVE ExitedZero(_)
ExitedZero(n) ==
    IF n = 0 THEN <<>>
    ELSE IF returncodes[n] = 0 THEN Append(ExitedZero(n - 1), n)
    ELSE ExitedZero(n - 1)

\* C5: in a batch that is never cancelled, a non-zero encoder exit gives a
\* `failed` event for that segment and no clip entry, the batch goes on; the
\* returned list is exactly the segments whose encoder exited 0, in order,
\* and the batch still emits its final `done` event
C5_FailedSegmentSkipped ==
    (CoreRun /\ Ended /\ ~Cancelled
       /\ \E n \in 1 .. Len(returncodes) : returncodes[n] # 0)
    => /\ \A n \in 1 .. Len(returncodes) :
            returncodes[n] # 0
            => /\ Emitted(n, "failed")
               /\ \A j \in 1 .. Len(clip_entries) :
                    clip_entries[j].segment # n
       /\ result.returned
       /\ Len(result.value) = Len(ExitedZero(Len(returncodes)))
       /\ \A j \in 1 .. Len(result.value) :
            result.value[j].segment = ExitedZero(Len(returncodes))[j]
       /\ Len(returncodes) = num_segments
       /\ events # <<>>
       /\ LastEvent = BatchProgress(num_segments, NoFile, "done")

\* C6: no per-segment failure, the failing probe of a produced file
\* included, aborts the batch: once the batch is planned split_video does
\* not end by an exception
C6_SegmentFailureIsolated ==
    (CoreRun /\ pc = "raised") => (events = <<>> /\ spawned = <<>>)

\* C7: a probed duration that is not strictly positive makes split_video
\* fail before any event, before the output directory is created and
\* before any encoder is spawned
C7_NonPositiveDurationFails ==
    (CoreRun /\ duration <= 0)
    => /\ events = <<>>
       /\ ~output_dir
       /\ spawned = <<>>
       /\ pc # "returned"

\* C8 as claimed: a segment length not shorter than the (positive) total
\* duration is never planned by split_video and no segment is processed
C8_AsClaimed ==
    (duration > 0 /\ segment_seconds >= duration)
    => (num_segments = 0 /\ events = <<>> /\ spawned = <<>>)

\* C8 as amended: the front ends (the GUI's _validate_inputs, the CLI's
\* prompt) refuse a segment length not shorter than the total duration and
\* never call split_video for it; split_video itself does not check: called
\* directly with such a length and a positive duration it plans the one
\* segment [0, duration)
C8_RejectedByFrontEnds ==
    /\ (caller \in {"gui", "cli"} /\ segment_seconds >= duration)
       => /\ pc \in {"startup", "exit", "request", "rejected"}
          /\ num_segments = 0 /\ events = <<>> /\ spawned = <<>>
          /\ ~output_dir
    /\ (caller = "direct" /\ duration > 0 /\ segment_seconds >= duration
          /\ pc \notin {"request", "entry"} /\ ~(pc = "raised" /\ ~output_dir))
       => /\ num_segments = 1
          /\ start_sec(0) = 0 /\ end_sec(0) = duration
          /\ pc # "planned" => events # <<>>

\* C8 witness: the GUI refused 600 s segments for a video of 600 s
C8_Witness ==
    /\ caller = "gui" /\ pc = "rejected"
    /\ duration = 600 * TicksPerSecond
    /\ segment_seconds = 600 * TicksPerSecond

\* C9: in a run that passes planning the first event is the `started`
\* event with the planned segment count; it precedes the output directory,
\* every encoder and every other event
C9_StartedFirst ==
    CoreRun
    => /\ (output_dir \/ spawned # <<>> \/ pc = "makedirs") => events # <<>>
       /\ events # <<>>
          => /\ events[1] = BatchProgress(0, NoFile, "started")
             /\ events[1].total_segments = Ceil(duration, segment_seconds)
             /\ \A n \in 2 .. Len(events) :
                  events[n].status = "started"
                  => (events[n].filename # NoFile
                      /\ events[n].segment_index >= 1)

\* C9 witness: segment 1 of 3 is announced and about to be spawned; the
\* batch's `started` event came first
C9_Witness ==
    /\ CoreRun /\ pc = "spawn" /\ spawned = <<>>
    /\ Len(events) = 2
    /\ events[1].status = "started" /\ events[1].total_segments = 3
    /\ events[2].status = "started" /\ events[2].segment_index = 1

\* the positions in events of the per-segment events of segment s with a
\* status in sts
SegmentEvents(s, sts) ==
    {n \in 1 .. Len(events) :
        /\ events[n].segment_index = s
        /\ events[n].filename.kind = "segment.mp4"
        /\ events[n].status \in sts}

\* C10: every spawned segment has its `started` event before the spawn,
\* followed directly by exactly one closing event (done, failed or
\* cancelled) of the same index; no other status is ever emitted
C10_SegmentEventProtocol ==
    CoreRun
    => /\ \A n \in 1 .. Len(events) :
            events[n].status \in {"started", "done", "failed", "cancelled"}
       /\ \A j \in 1 .. Len(spawned) :
            LET s == spawned[j].segment
                open == SegmentEvents(s, {"started"})
                closed == SegmentEvents(s, {"done", "failed", "cancelled"})
            IN  /\ Cardinality(open) = 1
                /\ Cardinality(closed) <= 1
                /\ \A n \in open : \A m \in closed : m = n + 1
                /\ \A n \in open :
                     n < Len(events) => n + 1 \in closed
                /\ Ended => Cardinality(closed) = 1

\* the positions in clip_entries of the entries of segment s (1-based)
EntriesOf(s) == {j \in 1 .. Len(clip_entries) : clip_entries[j].segment = s}

\* C11: every segment whose encoder's exit with status 0 split_video read
\* gets exactly one clip entry, appended after the probe of the output file
\* and before the segment's `done` event; no `done` event of a segment is
\* emitted without its entry in the list
C11_EntryBeforeDone ==
    CoreRun
    => /\ \A n \in 1 .. Len(returncodes) :
            (returncodes[n] = 0 /\ (i >= n \/ Ended))
            => Cardinality(EntriesOf(n)) = 1
       /\ \A s \in 1 .. Len(returncodes) : Cardinality(EntriesOf(s)) <= 1
       /\ \A j \in 1 .. Len(clip_entries) :
            /\ clip_entries[j].segment <= Len(returncodes)
            /\ returncodes[clip_entries[j].segment] = 0
       /\ \A s \in SegmentEvents(i + 1, {"done"}) : EntriesOf(i + 1) # {}
       /\ \A n \in 1 .. Len(events) :
            (events[n].status = "done"
               /\ events[n].filename.kind = "segment.mp4")
            => EntriesOf(events[n].segment_index) # {}
       /\ pc = "notify_done" => EntriesOf(i + 1) # {}

\* the positions in events of the events that name the README
ReadmeEvents == {n \in 1 .. Len(events) : events[n].filename = ReadmeFile}

\* the positions in events of the `cancelled` events
CancelledEvents == {n \in 1 .. Len(events) : events[n].status = "cancelled"}

\* C12: generate_readme is called at most once per batch, only after every
\* planned segment was attempted and none was cancelled, and at the end of
\* the loop exactly when the list holds a clip entry; the call is followed
\* by a `done` event naming the README; a cancelled batch and a batch
\* whose segments all failed have no README and no README event
C12_ReadmeAtMostOnce ==
    /\ [](CoreRun
          => /\ readme_calls <= 1
             /\ Cardinality(ReadmeEvents) = readme_calls
             /\ readme_calls = 1
                => /\ Len(returncodes) = num_segments
                   /\ i = num_segments
                   /\ CancelledEvents = {}
                   /\ clip_entries # <<>>
                   /\ \A n \in ReadmeEvents :
                        /\ events[n].status = "done"
                        /\ \A m \in 1 .. Len(events) :
                             events[m].filename.kind = "segment.mp4" => m < n
             /\ pc \in {"final", "returned"} /\ CancelledEvents = {}
                => (readme_calls = 1 <=> clip_entries # <<>>)
             /\ CancelledEvents # {} => readme_calls = 0
             /\ clip_entries = <<>> => readme_calls = 0)
    /\ [][(CoreRun /\ readme_calls' # readme_calls)
           => /\ pc = "readme" /\ pc' = "final"
              /\ readme_calls' = readme_calls + 1
              /\ events' = Append(events, BatchProgress(num_segments,
                                                        ReadmeFile, "done"))
         ]_vars

\* C12 witness: of two segments the first failed and the second produced a
\* clip; the README was generated once and announced before the final event
C12_Witness ==
    /\ CoreRun /\ pc = "returned" /\ num_segments = 2
    /\ returncodes = <<1, 0>>
    /\ readme_calls = 1
    /\ Len(events) >= 2
    /\ events[Len(events) - 1] = BatchProgress(2, ReadmeFile, "done")
    /\ LastEvent = BatchProgress(2, NoFile, "done")

\* C13: a run of split_video that returns ends either completed (its last
\* event is the final `done` with segment_index = total_segments, and it has
\* no `cancelled` event) or cancelled (its last event is `cancelled`); a run
\* emits at most one `cancelled` event, and after it no event and spawns
\* no subprocess
C13_TerminalOutcomes ==
    /\ [](CoreRun
          => /\ pc = "returned"
                => /\ events # <<>>
                   /\ \/ /\ LastEvent
                              = BatchProgress(num_segments, NoFile, "done")
                         /\ LastEvent.segment_index
                              = LastEvent.total_segments
                         /\ CancelledEvents = {}
                      \/ /\ LastEvent.status = "cancelled"
                         /\ LastEvent
                              # BatchProgress(num_segments, NoFile, "done")
             /\ Cardinality(CancelledEvents) <= 1
             /\ \A n \in CancelledEvents :
                  /\ n = Len(events)
                  /\ pc = "returned"
                  /\ proc.state # "running")
    /\ [][(CoreRun /\ CancelledEvents # {})
           => (events' = events /\ spawned' = spawned)]_vars

\* C13 witness: a completed run of three segments, one of which failed
C13_Witness ==
    /\ CoreRun /\ pc = "returned" /\ num_segments = 3
    /\ LastEvent = BatchProgress(3, NoFile, "done")
    /\ CancelledEvents = {}
    /\ SegmentEvents(2, {"failed"}) # {}
    /\ Len(result.value) = 2

\* the segment_index values of a sequence of progress values never decrease
NonDecreasing(q) ==
    \A m, n \in 1 .. Len(q) :
        m <= n => q[m].segment_index <= q[n].segment_index

\* C14: the events of a batch reach the callback, and through the GUI's
\* queue its consumer, in the order split_video emitted them, and their
\* segment_index never decreases along that order, the events the GUI's
\* worker enqueues itself included
C14_IndexNonDecreasing ==
    (CoreRun /\ duration > 0 /\ segment_seconds > 0)
    => /\ NonDecreasing(events)
       /\ NonDecreasing(progress_queue)
       /\ progress_callback = "progress_queue.put"
          => \A n \in 1 .. Len(events) :
                 n <= Len(progress_queue) /\ progress_queue[n] = events[n]

\* C15: while a batch is running the cancel flag, once set, is never
\* cleared, whatever the order of Browse, Start and Cancel
C15_CancelNotCleared ==
    [][(AliveThreads # {} /\ cancel_event) => cancel_event']_vars

\* C16: at most one encoder subprocess runs and at most one worker thread
\* is alive at any time
C16_OneWorkerOneEncoder ==
    /\ Cardinality(AliveThreads) <= 1
    /\ Cardinality(RunningEncoders) <= 1

\* C17: on a cancellation seen while a segment's subprocess runs,
\* split_video calls terminate() first and calls kill() only if the
\* subprocess has not exited when the 5-second wait ends; kill() never
\* comes before terminate(), and never when the subprocess exited within
\* the grace wait
C17_TerminateBeforeKill ==
    /\ [](CoreRun => (proc.kill => proc.terminate))
    /\ [][(CoreRun /\ proc'.terminate /\ ~proc.terminate)
           => /\ pc = "check_cancel" /\ cancel_event
              /\ proc.state \in {"running", "exited"}
              /\ ~proc.kill /\ ~proc'.kill
              /\ pc' = "grace_wait"]_vars
    /\ [][(CoreRun /\ proc'.kill /\ ~proc.kill)
           => /\ pc = "grace_wait"
              /\ proc.terminate
              /\ proc.state = "running"]_vars
    /\ [][(CoreRun /\ pc = "grace_wait" /\ pc' # pc
             /\ proc.state = "exited")
           => proc' = proc /\ ~proc'.kill]_vars

\* C17 witness: the second segment's subprocess ignored terminate() and was
\* killed when the grace wait ended
C17_Witness ==
    /\ CoreRun /\ pc = "returned" /\ num_segments = 2
    /\ Len(returncodes) = 1
    /\ proc.terminate /\ proc.kill /\ proc.returncode = -9
    /\ LastEvent.status = "cancelled"

Running ==
    pc \notin {"startup", "exit", "request", "rejected", "returned",
               "raised", "caught"}

\* C19: emitting a progress event never blocks split_video on the
\* consumer: without a callback the emission is a no-op, and with the
\* GUI's callback the value is put on the unbounded progress_queue, so
\* split_video goes on to its terminal event even if nothing ever reads the
\* queue (an encoder that cannot finish its writes to the unread pipes is
\* another wait, not one on the consumer)
C19_NotifyNeverBlocks ==
    /\ [](CoreRun
          => /\ progress_callback = "none" => progress_queue = <<>>
             /\ progress_callback = "progress_queue.put"
                => \/ progress_queue = events
                   \/ /\ pc = "caught"
                      /\ progress_queue
                           = Append(events,
                                    SplitProgress(0, 0, NoLabel, NoLabel,
                                                  NoFile, "failed"))
             /\ Running => ENABLED SplitVideoStep)
    /\ (CoreRun /\ Running)
       ~> \/ /\ pc = "returned"
             /\ \/ Len(events) \in CancelledEvents
                \/ events # <<>>
                   /\ events[Len(events)]
                        = BatchProgress(num_segments, NoFile, "done")
          \/ pc \in {"raised", "caught"}
          \/ (proc.state = "running" /\ ~WritesComplete)

\* C19 witness: a GUI batch of three segments has returned after its final
\* event while none of its nine events was read from the queue
C19_Witness ==
    /\ caller = "gui" /\ pc = "returned" /\ num_segments = 3
    /\ progress_callback = "progress_queue.put"
    /\ Len(progress_queue) = 9
    /\ progress_queue = events
    /\ LastEvent = BatchProgress(3, NoFile, "done")

\* the command line cmd holds the option opt followed by the value val
HasOption(cmd, opt, val) ==
    \E n \in 1 .. Len(cmd) - 1 : cmd[n] = Arg(opt) /\ cmd[n + 1] = Arg(val)

\* the command line cmd holds the argument s
HasArg(cmd, s) == \E n \in 1 .. Len(cmd) : cmd[n] = Arg(s)

\* C20: build_ffmpeg_cmd chooses the encoding from the transcode flag
\* alone: without it the command holds -c:v copy and -c:a copy and no
\* quality, preset or audio bitrate option; with it the command holds the
\* fixed video codec, preset and quality and the fixed audio codec and
\* bitrate and no copy; in both cases the output path is the last argument
C20_EncodingPolicy ==
    CoreRun
    => \A n \in 1 .. Len(spawned) :
         LET cmd == spawned[n].cmd IN
           /\ ~convert_to_h264
              => /\ HasOption(cmd, "-c:v", "copy")
                 /\ HasOption(cmd, "-c:a", "copy")
                 /\ ~HasArg(cmd, "-cq") /\ ~HasArg(cmd, "-preset")
                 /\ ~HasArg(cmd, "-b:a")
                 /\ ~HasArg(cmd, "h264_nvenc") /\ ~HasArg(cmd, "aac")
           /\ convert_to_h264
              => /\ HasOption(cmd, "-c:v", "h264_nvenc")
                 /\ HasOption(cmd, "-preset", "p5")
                 /\ HasOption(cmd, "-cq", "23")
                 /\ HasOption(cmd, "-c:a", "aac")
                 /\ HasOption(cmd, "-b:a", "192k")
                 /\ ~HasArg(cmd, "copy")
           /\ Cardinality({m \in 1 .. Len(cmd) : cmd[m] = Arg("-c:v")}) = 1
           /\ Cardinality({m \in 1 .. Len(cmd) : cmd[m] = Arg("-c:a")}) = 1
           /\ cmd[Len(cmd)] = [path |-> out_filename(n - 1)]
           /\ \A m \in 1 .. Len(cmd) - 1 :
                cmd[m] # [path |-> out_filename(n - 1)]

\* C20 witness: a batch with the transcode flag has spawned two encoders,
\* the second one for the last and shorter segment
C20_Witness ==
    /\ CoreRun /\ convert_to_h264 /\ Len(spawned) = 2 /\ num_segments = 2
    /\ HasOption(spawned[2].cmd, "-c:v", "h264_nvenc")
    /\ spawned[2].cmd[Len(spawned[2].cmd)] = [path |-> out_filename(1)]
    /\ seg_duration(1) < seg_duration(0)

\* the positions of the argument s in the command line cmd
ArgAt(cmd, s) == {n \in 1 .. Len(cmd) : cmd[n] = Arg(s)}

\* the value of a text of decimal digits
RECURSIVE Number(_)
Number(q) ==
    IF q = <<>> THEN 0
    ELSE 10 * Number(SubSeq(q, 1, Len(q) - 1))
         + (CHOOSE d \in 0 .. 9 : DigitChar[d + 1] = q[Len(q)])

\* every character of the text q is a decimal digit
AllDigits(q) ==
    \A n \in 1 .. Len(q) : \E d \in 1 .. 10 : DigitChar[d] = q[n]

\* the text q is HH:MM:SS for the whole seconds of the time t >= 0
IsHHMMSS(q, t) ==
    LET n == Len(q) IN
      /\ n >= 8
      /\ q[n - 2] = ":" /\ q[n - 5] = ":"
      /\ AllDigits(SubSeq(q, 1, n - 6))
      /\ AllDigits(SubSeq(q, n - 4, n - 3))
      /\ AllDigits(SubSeq(q, n - 1, n))
      /\ (3600 * Number(SubSeq(q, 1, n - 6))
          + 60 * Number(SubSeq(q, n - 4, n - 3))
          + Number(SubSeq(q, n - 1, n))) = t \div TicksPerSecond
      /\ Number(SubSeq(q, n - 4, n - 3)) < 60
      /\ Number(SubSeq(q, n - 1, n)) < 60

\* C21: in every command of build_ffmpeg_cmd the seek is on the input
\* side: -ss, followed by the start as HH:MM:SS, comes before -i input_path;
\* -t comes after the input; -y is always there
C21_InputSideSeek ==
    CoreRun
    => \A n \in 1 .. Len(spawned) :
         LET cmd == spawned[n].cmd IN
           /\ Cardinality(ArgAt(cmd, "-ss")) = 1
           /\ Cardinality(ArgAt(cmd, "-i")) = 1
           /\ Cardinality(ArgAt(cmd, "-t")) = 1
           /\ Cardinality(ArgAt(cmd, "-y")) = 1
           /\ \A a \in ArgAt(cmd, "-ss") : \A b \in ArgAt(cmd, "-i") :
              \A c \in ArgAt(cmd, "-t") : \A y \in ArgAt(cmd, "-y") :
                /\ a + 1 < b /\ b + 1 < c /\ c < Len(cmd)
                /\ y < Len(cmd)
                /\ cmd[b + 1] = input_path
                /\ \E q \in {cmd[a + 1]} :
                     /\ DOMAIN q = {"hhmmss"}
                     /\ start_sec(n - 1) >= 0
                        => IsHHMMSS(q.hhmmss, start_sec(n - 1))
                /\ cmd[c + 1] = [str |-> seg_duration(n - 1)]

\* C21 witness: the command of the second segment of the batch of 3700 s in
\* segments of 3661 s seeks to 01:01:01 before the input
C21_Witness ==
    /\ CoreRun /\ Len(spawned) = 2
    /\ segment_seconds = 3661 * TicksPerSecond
    /\ spawned[2].cmd[3] = Arg("-ss")
    /\ spawned[2].cmd[4]
         = [hhmmss |-> <<"0", "1", ":", "0", "1", ":", "0", "1">>]
    /\ spawned[2].cmd[5] = Arg("-i")
    /\ spawned[2].cmd[7] = Arg("-t")
    /\ spawned[2].cmd[8] = [str |-> 39 * TicksPerSecond]

\* the text q is HH:MM for the time t >= 0: the hours, at least two digits
\* with zeros in front, and the minutes of the hour, two digits; the
\* seconds do not count
IsHHMM(q, t) ==
    LET n == Len(q) IN
      /\ n >= 5
      /\ q[n - 2] = ":"
      /\ AllDigits(SubSeq(q, 1, n - 3))
      /\ AllDigits(SubSeq(q, n - 1, n))
      /\ n > 5 => q[1] # "0"
      /\ Number(SubSeq(q, 1, n - 3)) = t \div (3600 * TicksPerSecond)
      /\ Number(SubSeq(q, n - 1, n))
           = (t % (3600 * TicksPerSecond)) \div (60 * TicksPerSecond)

\* the text f is the text q with '-' in the place of every ':'
ColonsReplaced(f, q) ==
    /\ Len(f) = Len(q)
    /\ \A n \in 1 .. Len(q) : f[n] = IF q[n] = ":" THEN "-" ELSE q[n]

\* the labels and the filename of segment k (0-based) are well formed
WellFormedNames(k, sl, el, fname) ==
    /\ start_sec(k) >= 0 => IsHHMM(sl, start_sec(k))
    /\ end_sec(k) >= 0 => IsHHMM(el, end_sec(k))
    /\ DOMAIN fname = {"kind", "start", "end"}
    /\ fname.kind = "segment.mp4"
    /\ ColonsReplaced(fname.start, sl)
    /\ ColonsReplaced(fname.end, el)

\* C22: for every start or end time s >= 0 the label is HH:MM with
\* HH = s div 3600 and MM = (s mod 3600) div 60, zero-padded, the seconds
\* truncated (3661 s gives "01:01"); the output filename is
\* {base}_{start label} - {end label}.mp4 with '-' for every ':' of the
\* labels, with the same extension whether or not the batch transcodes
C22_LabelsAndFilenames ==
    CoreRun
    => /\ \A n \in 1 .. Len(events) :
            events[n].filename.kind = "segment.mp4"
            => WellFormedNames(events[n].segment_index - 1,
                               events[n].start_label, events[n].end_label,
                               events[n].filename)
       /\ \A n \in 1 .. Len(clip_entries) :
            WellFormedNames(clip_entries[n].segment - 1,
                            clip_entries[n].start_label,
                            clip_entries[n].end_label,
                            clip_entries[n].filename)
       /\ \A n \in 1 .. Len(spawned) :
            LET cmd == spawned[n].cmd IN
              /\ DOMAIN cmd[Len(cmd)] = {"path"}
              /\ \A m \in 1 .. Len(events) :
                   (events[m].segment_index = n
                      /\ events[m].filename.kind = "segment.mp4")
                   => cmd[Len(cmd)].path = events[m].filename

\* C22 witness: a transcoding batch of 3700 s in segments of 3661 s: its
\* second segment, from 3661 s to 3700 s, is labelled 01:01 and 01:01 and
\* its file is named with 01-01 and 01-01
C22_Witness ==
    /\ CoreRun /\ convert_to_h264
    /\ segment_seconds = 3661 * TicksPerSecond
    /\ Len(clip_entries) = 2
    /\ clip_entries[2].start_label = <<"0", "1", ":", "0", "1">>
    /\ clip_entries[2].end_label = <<"0", "1", ":", "0", "1">>
    /\ clip_entries[2].filename
         = [kind  |-> "segment.mp4",
            start |-> <<"0", "1", "-", "0", "1">>,
            end   |-> <<"0", "1", "-", "0", "1">>]

\* the exceptions a failing get_video_info ends with
ProbeExceptions == {"VideoInfoError", "FileNotFoundError", "JSONDecodeError"}

\* C23: get_video_info fails with VideoInfoError in each of its three
\* cases: no ffprobe, a non-zero exit status (the error then carries at
\* most the last 200 characters of stderr), a stdout that does not parse;
\* no exception of another type leaves it in these cases
C23_ProbeErrorType ==
    (CoreRun /\ pc \in {"raised", "caught"}
       /\ result.raised \in ProbeExceptions)
    => /\ result.raised = "VideoInfoError"
       /\ result.detail <= DetailLimit

\* the request comes through one of the two front ends
FrontEnd == caller \in {"gui", "cli"}

\* no batch has been started: split_video was not called, nothing was
\* emitted and no encoder was started
NoBatch ==
    /\ pc \in {"startup", "exit"}
    /\ events = <<>> /\ progress_queue = <<>>
    /\ spawned = <<>> /\ proc = NoProc
    /\ num_segments = 0 /\ ~output_dir

\* C24: in both front ends check_ffmpeg runs before any call of
\* split_video and before any progress event; if ffmpeg or ffprobe is
\* missing no batch is ever started and no event is ever emitted
C24_ToolsCheckedFirst ==
    /\ [](FrontEnd
          => /\ pc = "startup" => NoBatch
             /\ check_ffmpeg(tools) # "" => NoBatch
             /\ pc \notin {"startup", "exit"}
                => (tools.ffmpeg = "ok" /\ tools.ffprobe = "ok")
             /\ pc = "exit"
                => (check_ffmpeg(tools) # ""
                    /\ result.raised = "SystemExit"))
    /\ [][(FrontEnd /\ pc = "startup" /\ pc' # pc)
           => pc' = IF tools.ffmpeg = "ok" /\ tools.ffprobe = "ok"
                      THEN "request" ELSE "exit"]_vars
    /\ [][(FrontEnd /\ pc = "exit") => UNCHANGED vars]_vars
    /\ [][tools' = tools]_vars

\* C24 witness: the GUI found ffmpeg but no ffprobe and has ended without
\* a batch
C24_Witness ==
    /\ caller = "gui" /\ pc = "exit"
    /\ tools = [ffmpeg |-> "ok", ffprobe |-> "missing"]
    /\ result.raised = "SystemExit"
    /\ NoBatch

\* C25: the list of clip entries only grows during a batch: every step of
\* split_video leaves it as it is or appends exactly one entry at its end;
\* no entry is removed, moved or changed; the list split_video returns, at
\* the end of the batch or on cancellation, is the accumulated list
C25_ClipEntriesMonotone ==
    /\ [][CoreRun
           => \/ clip_entries' = clip_entries
              \/ /\ Len(clip_entries') = Len(clip_entries) + 1
                 /\ SubSeq(clip_entries', 1, Len(clip_entries))
                      = clip_entries
                 /\ pc = "append"
                 /\ clip_entries'[Len(clip_entries')].segment = i + 1
         ]_vars
    /\ [](CoreRun
          => /\ pc = "returned"
                => (result.returned /\ result.value = clip_entries)
             /\ \A m, n \in 1 .. Len(clip_entries) :
                  m < n => clip_entries[m].segment < clip_entries[n].segment)

\* C25 witness: a batch of three segments was cancelled during its third
\* segment and returned the two entries it had accumulated
C25_Witness ==
    /\ CoreRun /\ pc = "returned" /\ num_segments = 3
    /\ Len(events) \in CancelledEvents
    /\ Len(result.value) = 2
    /\ result.value = clip_entries
    /\ clip_entries[1].segment = 1 /\ clip_entries[2].segment = 2

\* the GUI has declared its batch finished: _poll_progress found the
\* worker thread dead, _on_split_finished has run and no poll is scheduled
Finished ==
    /\ gui.split_thread # 0
    /\ gui.after = 0
    /\ gui.main \in {"idle", "showinfo"}

\* C26: every value the split worker put on progress_queue is handled by
\* _handle_progress before _on_split_finished declares the batch finished,
\* whatever the interleaving of the worker's last puts, the end of its
\* thread and _poll_progress's drain and is_alive check: no value of the
\* batch stays in the queue
C26_QueueDrainedBeforeFinished ==
    Finished => progress_queue = <<>>

\* C27: split_video never blocks a segment's encoder for ever: an encoder
\* that writes any amount to the stdout and stderr pipes split_video
\* created, and would exit once its writes are complete, does exit; the
\* polling loop sees the exit and the segment reaches `done` or `failed`
\* without a cancellation
C27_EncoderNotBlocked ==
    /\ [](CoreRun => (proc.state = "running" => ENABLED ProcExit))
    /\ \A k \in 0 .. MaxSegments - 1 :
         (CoreRun /\ i = k /\ pc = "poll" /\ proc.state = "running")
         ~> \/ SegmentEvents(k + 1, {"done", "failed"}) # {}
            \/ cancel_event
            \/ pc \in {"raised", "caught"}

\* the output path of the n-th encoder command
OutPath(n) == spawned[n].cmd[Len(spawned[n].cmd)].path

\* C28: within one batch any two planned segments have different output
\* filenames, so that no segment's file and no clip entry's filename is
\* overwritten by a later segment, for every segment length the front
\* ends accept (any positive number of minutes, fractions under a minute
\* included)
C28_DistinctFilenames ==
    (validate_inputs /\ (caller = "direct" => pc # "request"))
    => /\ \A m, n \in 1 .. Len(spawned) :
            m # n => OutPath(m) # OutPath(n)
       /\ \A m, n \in 1 .. Len(clip_entries) :
            m # n => clip_entries[m].filename # clip_entries[n].filename

\* the step in which _poll_progress finds the worker thread dead and calls
\* _on_split_finished
Finishing ==
    /\ gui.main = "poll_check"
    /\ gui'.main # "poll_check"
    /\ ~is_alive(gui.split_thread)

\* C29: when a GUI batch finishes the GUI reports "Cancelled by user" if
\* and only if the batch ended with a `cancelled` event; a Cancel the
\* worker never saw, pressed after the last segment's encoder had exited,
\* does not make a completed batch be reported as cancelled
C29_CancelledReportedIffCancelled ==
    [][Finishing
        => ((gui'.status_var = status_text("Cancelled by user"))
            <=> (threads[gui.split_thread].outcome = "cancelled"))]_vars

\* C30: the GUI shows the dialog "Video splitting finished successfully!"
\* only if every planned segment of the batch ended with a `done` event;
\* a batch with a `failed` segment (or with only failed segments) is not
\* reported as finished successfully
C30_SuccessOnlyIfAllDone ==
    [][(Finishing /\ gui'.main = "showinfo")
        => /\ threads[gui.split_thread].outcome = "completed"
           /\ ~threads[gui.split_thread].failed]_vars

\* the time, in ticks, that the encoder reads from the text q = HH:MM:SS
hhmmss_value(q) ==
    LET n == Len(q) IN
      (3600 * Number(SubSeq(q, 1, n - 6))
       + 60 * Number(SubSeq(q, n - 4, n - 3))
       + Number(SubSeq(q, n - 1, n))) * TicksPerSecond

\* the start of the range the command cmd requests: the value of -ss
RequestedStart(cmd) == hhmmss_value(OptionValue(cmd, "-ss").hhmmss)

\* the end of the range the command cmd requests: the start plus -t
RequestedEnd(cmd) == RequestedStart(cmd) + OptionValue(cmd, "-t").str

\* C31: for every planned segment the range requested from the encoder
\* (from the value of -ss, for -t long) is the planned range
\* [start_sec, end_sec), so that the requested ranges of consecutive
\* segments neither overlap nor leave a gap, also when the segment length
\* is not a whole number of seconds
C31_RequestedRangeIsPlanned ==
    (CoreRun /\ duration > 0 /\ segment_seconds > 0)
    => \A n \in 1 .. Len(spawned) :
         LET cmd == spawned[n].cmd
             k == spawned[n].segment - 1
         IN /\ RequestedStart(cmd) = start_sec(k)
            /\ RequestedEnd(cmd) = end_sec(k)
            /\ n > 1 => RequestedStart(cmd) = RequestedEnd(spawned[n - 1].cmd)

\* C32: every progress event split_video emits carries total_segments >= 1:
\* for no input, in particular a segment length <= 0 or a negative probed
\* duration, does split_video emit its `started` and final `done` events
\* over a plan of zero or a negative number of segments; such inputs end
\* in an error
C32_TotalSegmentsPositive ==
    CoreRun
    => /\ \A n \in 1 .. Len(events) : events[n].total_segments >= 1
       /\ (segment_seconds <= 0 \/ duration < 0) => pc # "returned"

\* the run of main.split_video that followed a run of core.split_video
\* has ended
BothEnded ==
    /\ caller = "cli" /\ core_run # NoCoreRun
    /\ pc \in {"returned", "raised"}

\* C33: core.split_video called without a cancel signal does what
\* main.split_video, from which it was extracted, does: on the same input,
\* segment length and transcode flag both build the same encoder commands
\* in the same order, and when both read the same sequence of encoder exit
\* statuses and end the same way they have spawned the same commands,
\* accumulated the same clip entries in the same order and called
\* generate_readme as often (a run that returns: once if there is a clip
\* entry, else never)
C33_CoreEquivalentToOriginal ==
    (caller = "cli" /\ core_run # NoCoreRun)
    => /\ \A n \in 1 .. Min(Len(spawned), Len(core_run.spawned)) :
            spawned[n] = core_run.spawned[n]
       /\ (BothEnded /\ returncodes = core_run.returncodes
             /\ pc = core_run.ended)
          => /\ spawned = core_run.spawned
             /\ clip_entries = core_run.clip_entries
             /\ readme_calls = core_run.readme_calls
             /\ pc = "returned"
                => readme_calls = IF clip_entries # <<>> THEN 1 ELSE 0

\* C33 witness: both functions split 1500 s in segments of 600 s, the
\* second encoder failed in both runs: three commands, two clip entries
\* (segments 1 and 3), one report each
C33_Witness ==
    /\ BothEnded /\ pc = "returned" /\ core_run.ended = "returned"
    /\ duration = 1500 * TicksPerSecond
    /\ segment_seconds = 600 * TicksPerSecond
    /\ returncodes = <<0, 1, 0>> /\ core_run.returncodes = <<0, 1, 0>>
    /\ Len(spawned) = 3 /\ spawned = core_run.spawned
    /\ Len(clip_entries) = 2 /\ clip_entries = core_run.clip_entries
    /\ clip_entries[2].segment = 3
    /\ readme_calls = 1 /\ core_run.readme_calls = 1

====
